---------------------------- MODULE Spec2Model ----------------------------
(***************************************************************************)
(* Model of the tenant-scoped data access of auto-transport-logistics.     *)
(*                                                                         *)
(* The database is the state: one variable per table of                    *)
(* migrations/000001_initial_schema.up.sql, each a function from the row   *)
(* id to the row.  A sqlc statement of sql/queries/*.sql that writes is a   *)
(* ...Stmt operator, giving the tables the statement leaves behind (the    *)
(* foreign-key actions of the schema, ON DELETE CASCADE / SET NULL and the *)
(* REFERENCES checks, included) and what the generated method hands back   *)
(* to its caller in `returns`; the action of the same name commits those   *)
(* tables.  A statement that only reads is an operator over the current    *)
(* tables.                                                                 *)
(*                                                                         *)
(* Columns that no statement compares, joins on or orders by (addresses,   *)
(* dates, prices, phone numbers, timestamps) are left out of the rows.     *)
(***************************************************************************)
EXTENDS Naturals, Integers, Sequences, FiniteSets, TLC

VARIABLES customers, carriers, shipments, users, nextId

\* the organizations table: the tenants and their attributes
VARIABLES organizations

\* the schema objects (extension, types, tables, indexes, function, triggers)
\* that exist in the database
VARIABLES schema

\* the migration state of the database (the schema_migrations row and the
\* advisory lock of golang-migrate), the processes that call the functions of
\* internal/database/migrations.go, and the process of cmd/server/main.go
VARIABLES version, dirty, lockedBy, proc, upRuns, downRuns, server

rowVars == <<customers, carriers, shipments, users, nextId, organizations>>

dataVars == <<customers, carriers, shipments, users, nextId, organizations, schema>>

migVars == <<version, dirty, lockedBy, proc, upRuns, downRuns, server>>

vars == <<customers, carriers, shipments, users, nextId, organizations, schema,
          version, dirty, lockedBy, proc, upRuns, downRuns, server>>

---------------------------------------------------------------------------
(* Bounds of the model *)

\* rows ever inserted, all tables together
MaxRows == 3

\* embedded migration versions: migrations/000001_*.sql .. 00000<MaxVersion>_*.sql
MaxVersion == 3

\* calls of RunMigrations / RollbackMigration a process makes
MaxCalls == 3

---------------------------------------------------------------------------
(* Value domains *)

\* organizations.id: the tenants.  No statement deletes an organization.
Orgs == {"orgA", "orgB"}

\* SQL NULL for a nullable column or a nullable statement parameter: a
\* nullable value is a sequence of length 0 (NULL) or 1 (the value).
Null == <<>>

Some(v) == <<v>>

\* COALESCE(param, column) for a NOT NULL column
Coalesce(p, col) == IF p = Null THEN col ELSE p[1]

\* COALESCE(param, column) for a nullable column
CoalesceNullable(p, col) == IF p = Null THEN col ELSE p

\* VARCHAR values are sequences of characters
CustomerNames == {<<"a", "b">>, <<"B">>}

CompanyNames == {<<"a">>, <<"A", "b">>}

SearchTexts == {<<>>, <<"b">>, <<"A", "B">>}

UserEmails == {<<"a">>, <<"b">>}

PasswordHashes == {"hash1", "hash2"}

\* shipment_status enum
Statuses == {"pending", "assigned", "in_transit", "delivered", "cancelled"}

\* uuid_generate_v4() never hands out an id twice: the n-th row inserted into
\* a table gets id n.  NoId is an id that no row of any table has.
NoId == MaxRows + 1

\* the ids a caller passes for table t: the id of any of its rows, or of none
IdsFor(t) == DOMAIN t \cup {NoId}

\* rows inserted so far
Inserted ==
    (nextId.customers - 1) + (nextId.carriers - 1)
        + (nextId.shipments - 1) + (nextId.users - 1)

Limits == {0, 1, 2}

Offsets == {0, 1}

\* f without the rows whose id is in gone
Without(f, gone) == [k \in DOMAIN f \ gone |-> f[k]]

\* f with one more row
With(f, id, row) == [k \in DOMAIN f \cup {id} |-> IF k = id THEN row ELSE f[k]]


---------------------------------------------------------------------------
(* What a generated method returns *)

\* a :one method that got its row
Row == "row"

\* a :one method whose statement matched no row (pgx.ErrNoRows): NotFound
NoRows == "no_rows"

\* an :exec method: the error only, nil whatever number of rows was affected
ExecOk == "ok"

\* the statement failed on a REFERENCES constraint; nothing was written
FkViolation == "fk_violation"

\* the statement failed on a UNIQUE constraint; nothing was written
UniqueViolation == "unique_violation"

---------------------------------------------------------------------------
(* Text matching and ordering *)

Lower(ch) ==
    CASE ch = "A" -> "a"
      [] ch = "B" -> "b"
      [] OTHER -> ch

\* text ILIKE '%' || q || '%': q occurs in text, letter case ignored
ILike(t, q) ==
    \E i \in 0..(Len(t) - Len(q)) :
        \A j \in 1..Len(q) : Lower(t[i + j]) = Lower(q[j])

\* rank of a character in the collation: letters first, lower case before upper
CharRank(ch) ==
    CASE ch = "a" -> 1
      [] ch = "A" -> 2
      [] ch = "b" -> 3
      [] ch = "B" -> 4

RECURSIVE TextLeq(_, _)
\* s <= t in the order ORDER BY ... ASC sorts by
TextLeq(s, t) ==
    IF s = <<>> THEN TRUE
    ELSE IF t = <<>> THEN FALSE
    ELSE IF CharRank(s[1]) < CharRank(t[1]) THEN TRUE
    ELSE IF CharRank(s[1]) > CharRank(t[1]) THEN FALSE
    ELSE TextLeq(Tail(s), Tail(t))

RECURSIVE OrdersByText(_, _)
\* ORDER BY a text column ASC: the orders in which the ids of S, of sort keys
\* key[id], can come out (ids of equal keys in any order)
OrdersByText(S, key) ==
    IF S = {} THEN {<<>>}
    ELSE UNION {{<<m>> \o p : p \in OrdersByText(S \ {m}, key)} :
                    m \in {x \in S : \A y \in S : TextLeq(key[x], key[y])}}

RECURSIVE Descending(_)
\* the numbers of S, the largest first
Descending(S) ==
    IF S = {} THEN <<>>
    ELSE LET m == CHOOSE x \in S : \A y \in S : y <= x
         IN  <<m>> \o Descending(S \ {m})

\* seq LIMIT lim OFFSET off
Window(seq, lim, off) ==
    [i \in 1..(IF Len(seq) - off < lim
               THEN (IF Len(seq) > off THEN Len(seq) - off ELSE 0)
               ELSE lim) |-> seq[off + i]]


\* the tables as a statement leaves them and what its method returns
Outcome(cu, ca, sh, us, ret) ==
    [customers |-> cu, carriers |-> ca, shipments |-> sh, users |-> us,
     returns |-> ret]

\* the action of a statement: its tables are committed
Commit(out) ==
    /\ customers' = out.customers
    /\ carriers' = out.carriers
    /\ shipments' = out.shipments
    /\ users' = out.users
    /\ UNCHANGED <<organizations, schema>>
    /\ UNCHANGED migVars

---------------------------------------------------------------------------
(* customers.sql *)

\* -- name: GetCustomer :one
\* the row, or Null when the statement selects none (pgx.ErrNoRows)
GetCustomer(id, org) ==
    LET hit == {c \in DOMAIN customers :
                    c = id /\ customers[c].organization_id = org}
    IN  IF hit = {} THEN Null ELSE Some([id |-> id] @@ customers[id])

\* the rows of the ids p, in the order of p
CustomerRows(p) == [i \in DOMAIN p |-> [id |-> p[i]] @@ customers[p[i]]]

\* ORDER BY name ASC over the rows hit: every order the sort may produce
CustomersByName(hit) ==
    OrdersByText(hit, [c \in DOMAIN customers |-> customers[c].name])

\* -- name: ListCustomers :many
\* the results the statement may give
ListCustomers(org, lim, off) ==
    LET hit == {c \in DOMAIN customers : customers[c].organization_id = org}
    IN  {Window(CustomerRows(p), lim, off) : p \in CustomersByName(hit)}

\* SearchCustomers with the search text alone in the WHERE clause
SearchCustomersAnyOrg(org, q, lim, off) ==
    LET hit == {c \in DOMAIN customers : ILike(customers[c].name, q)}
    IN  {Window(CustomerRows(p), lim, off) : p \in CustomersByName(hit)}

\* -- name: SearchCustomers :many
\* (of the three columns matched, name is the one the rows of the model keep)
SearchCustomers(org, q, lim, off) ==
    LET hit == {c \in DOMAIN customers :
                    /\ customers[c].organization_id = org
                    /\ ILike(customers[c].name, q)}
    IN  {Window(CustomerRows(p), lim, off) : p \in CustomersByName(hit)}

\* -- name: CreateCustomer :one
CreateCustomerStmt(org, name) ==
    Outcome(With(customers, nextId.customers,
                 [organization_id |-> org, name |-> name]),
            carriers, shipments, users, Row)

CreateCustomer(org, name) ==
    /\ Inserted < MaxRows
    /\ Commit(CreateCustomerStmt(org, name))
    /\ nextId' = [nextId EXCEPT !.customers = @ + 1]

\* UpdateCustomer with organization_id = $2 in the SET list, not in the WHERE clause
UpdateCustomerStmtSetsOrg(id, org, name) ==
    LET hit == {c \in DOMAIN customers : c = id}
    IN  Outcome([c \in DOMAIN customers |->
                    IF c \in hit
                    THEN [customers[c] EXCEPT
                            !.organization_id = org,
                            !.name = Coalesce(name, @)]
                    ELSE customers[c]],
                carriers, shipments, users,
                IF hit = {} THEN NoRows ELSE Row)

\* -- name: UpdateCustomer :one
UpdateCustomerStmt(id, org, name) ==
    LET hit == {c \in DOMAIN customers :
                    c = id /\ customers[c].organization_id = org}
    IN  Outcome([c \in DOMAIN customers |->
                    IF c \in hit
                    THEN [customers[c] EXCEPT !.name = Coalesce(name, @)]
                    ELSE customers[c]],
                carriers, shipments, users,
                IF hit = {} THEN NoRows ELSE Row)

UpdateCustomer(id, org, name) ==
    /\ Commit(UpdateCustomerStmt(id, org, name))
    /\ UNCHANGED nextId

\* DeleteCustomer with WHERE id = $1 alone
DeleteCustomerStmtAnyOrg(id, org) ==
    LET hit == {c \in DOMAIN customers : c = id}
    IN  Outcome(Without(customers, hit),
                carriers,
                Without(shipments,
                        {s \in DOMAIN shipments : shipments[s].customer_id \in hit}),
                users, ExecOk)

\* -- name: DeleteCustomer :exec
\* shipments.customer_id REFERENCES customers(id) ON DELETE CASCADE
DeleteCustomerStmt(id, org) ==
    LET hit == {c \in DOMAIN customers :
                    c = id /\ customers[c].organization_id = org}
    IN  Outcome(Without(customers, hit),
                carriers,
                Without(shipments,
                        {s \in DOMAIN shipments : shipments[s].customer_id \in hit}),
                users, ExecOk)

DeleteCustomer(id, org) ==
    /\ Commit(DeleteCustomerStmt(id, org))
    /\ UNCHANGED nextId

---------------------------------------------------------------------------
(* carriers.sql *)

\* -- name: GetCarrier :one
GetCarrier(id, org) ==
    LET hit == {c \in DOMAIN carriers :
                    c = id /\ carriers[c].organization_id = org}
    IN  IF hit = {} THEN Null ELSE Some([id |-> id] @@ carriers[id])

CarrierRows(p) == [i \in DOMAIN p |-> [id |-> p[i]] @@ carriers[p[i]]]

\* ORDER BY company_name ASC
CarriersByName(hit) ==
    OrdersByText(hit, [c \in DOMAIN carriers |-> carriers[c].company_name])

\* -- name: ListCarriers :many
ListCarriers(org, lim, off) ==
    LET hit == {c \in DOMAIN carriers : carriers[c].organization_id = org}
    IN  {Window(CarrierRows(p), lim, off) : p \in CarriersByName(hit)}

\* -- name: ListActiveCarriers :many
ListActiveCarriers(org) ==
    LET hit == {c \in DOMAIN carriers :
                    carriers[c].organization_id = org /\ carriers[c].active = TRUE}
    IN  {CarrierRows(p) : p \in CarriersByName(hit)}

\* -- name: SearchCarriers :many
\* (of the four columns matched, company_name is the one the rows of the model keep)
SearchCarriers(org, q, lim, off) ==
    LET hit == {c \in DOMAIN carriers :
                    /\ carriers[c].organization_id = org
                    /\ ILike(carriers[c].company_name, q)}
    IN  {Window(CarrierRows(p), lim, off) : p \in CarriersByName(hit)}

\* -- name: CreateCarrier :one
CreateCarrierStmt(org, name, active) ==
    Outcome(customers,
            With(carriers, nextId.carriers,
                 [organization_id |-> org, company_name |-> name, active |-> active]),
            shipments, users, Row)

CreateCarrier(org, name, active) ==
    /\ Inserted < MaxRows
    /\ Commit(CreateCarrierStmt(org, name, active))
    /\ nextId' = [nextId EXCEPT !.carriers = @ + 1]

\* -- name: UpdateCarrier :one
UpdateCarrierStmt(id, org, name, active) ==
    LET hit == {c \in DOMAIN carriers :
                    c = id /\ carriers[c].organization_id = org}
    IN  Outcome(customers,
                [c \in DOMAIN carriers |->
                    IF c \in hit
                    THEN [carriers[c] EXCEPT
                            !.company_name = Coalesce(name, @),
                            !.active = Coalesce(active, @)]
                    ELSE carriers[c]],
                shipments, users,
                IF hit = {} THEN NoRows ELSE Row)

UpdateCarrier(id, org, name, active) ==
    /\ Commit(UpdateCarrierStmt(id, org, name, active))
    /\ UNCHANGED nextId

\* -- name: DeactivateCarrier :one
DeactivateCarrierStmt(id, org) ==
    LET hit == {c \in DOMAIN carriers :
                    c = id /\ carriers[c].organization_id = org}
    IN  Outcome(customers,
                [c \in DOMAIN carriers |->
                    IF c \in hit
                    THEN [carriers[c] EXCEPT !.active = FALSE]
                    ELSE carriers[c]],
                shipments, users,
                IF hit = {} THEN NoRows ELSE Row)

DeactivateCarrier(id, org) ==
    /\ Commit(DeactivateCarrierStmt(id, org))
    /\ UNCHANGED nextId

\* -- name: ActivateCarrier :one
ActivateCarrierStmt(id, org) ==
    LET hit == {c \in DOMAIN carriers :
                    c = id /\ carriers[c].organization_id = org}
    IN  Outcome(customers,
                [c \in DOMAIN carriers |->
                    IF c \in hit
                    THEN [carriers[c] EXCEPT !.active = TRUE]
                    ELSE carriers[c]],
                shipments, users,
                IF hit = {} THEN NoRows ELSE Row)

ActivateCarrier(id, org) ==
    /\ Commit(ActivateCarrierStmt(id, org))
    /\ UNCHANGED nextId

\* DeleteCarrier that puts the shipments of the deleted carrier back to 'pending'
DeleteCarrierStmtResetsStatus(id, org) ==
    LET hit == {c \in DOMAIN carriers :
                    c = id /\ carriers[c].organization_id = org}
    IN  Outcome(customers,
                Without(carriers, hit),
                [s \in DOMAIN shipments |->
                    IF shipments[s].carrier_id # Null
                       /\ shipments[s].carrier_id[1] \in hit
                    THEN [shipments[s] EXCEPT
                            !.carrier_id = Null, !.status = "pending"]
                    ELSE shipments[s]],
                users, ExecOk)

\* DeleteCarrier without the ON DELETE SET NULL of shipments.carrier_id
DeleteCarrierStmtKeepsReferences(id, org) ==
    LET hit == {c \in DOMAIN carriers :
                    c = id /\ carriers[c].organization_id = org}
    IN  Outcome(customers, Without(carriers, hit), shipments, users, ExecOk)

\* -- name: DeleteCarrier :exec
\* shipments.carrier_id REFERENCES carriers(id) ON DELETE SET NULL
DeleteCarrierStmt(id, org) ==
    LET hit == {c \in DOMAIN carriers :
                    c = id /\ carriers[c].organization_id = org}
    IN  Outcome(customers,
                Without(carriers, hit),
                [s \in DOMAIN shipments |->
                    IF shipments[s].carrier_id # Null
                       /\ shipments[s].carrier_id[1] \in hit
                    THEN [shipments[s] EXCEPT !.carrier_id = Null]
                    ELSE shipments[s]],
                users, ExecOk)

DeleteCarrier(id, org) ==
    /\ Commit(DeleteCarrierStmt(id, org))
    /\ UNCHANGED nextId

---------------------------------------------------------------------------
(* shipments.sql *)

\* s.* with the columns of LEFT JOIN customers c ON s.customer_id = c.id and
\* LEFT JOIN carriers ca ON s.carrier_id = ca.id (NULL where a join finds no row)
ShipmentJoined(s) ==
    LET row == shipments[s]
        c   == {k \in DOMAIN customers : row.customer_id = k}
        ca  == {k \in DOMAIN carriers : row.carrier_id = Some(k)}
    IN  [id |-> s] @@ row @@
        [customer_name |-> IF c = {} THEN Null
                           ELSE Some(customers[row.customer_id].name),
         carrier_name  |-> IF ca = {} THEN Null
                           ELSE Some(carriers[row.carrier_id[1]].company_name)]

\* GetShipment with WHERE s.id = $1 alone
GetShipmentAnyOrg(id, org) ==
    LET hit == {s \in DOMAIN shipments : s = id}
    IN  IF hit = {} THEN Null ELSE Some(ShipmentJoined(id))

\* -- name: GetShipment :one
GetShipment(id, org) ==
    LET hit == {s \in DOMAIN shipments :
                    s = id /\ shipments[s].organization_id = org}
    IN  IF hit = {} THEN Null ELSE Some(ShipmentJoined(id))

\* ORDER BY s.created_at DESC: created_at is NOW() of the insert, and ids are
\* handed out in insert order, so the latest id comes first
ShipmentsByCreated(hit) == Descending(hit)

\* -- name: ListShipments :many
ListShipments(org, lim, off) ==
    LET hit == {s \in DOMAIN shipments : shipments[s].organization_id = org}
        p   == ShipmentsByCreated(hit)
    IN  Window([i \in DOMAIN p |-> ShipmentJoined(p[i])], lim, off)

\* -- name: CountShipments :one
CountShipments(org) ==
    Cardinality({s \in DOMAIN shipments : shipments[s].organization_id = org})

\* -- name: CountShipmentsByStatus :one
CountShipmentsByStatus(org, status) ==
    Cardinality({s \in DOMAIN shipments :
                    shipments[s].organization_id = org /\ shipments[s].status = status})

\* CreateShipment that files the shipment under the organization of its customer
CreateShipmentStmtCustomerOrg(org, customer) ==
    IF customer \in DOMAIN customers
    THEN Outcome(customers, carriers,
                 With(shipments, nextId.shipments,
                      [organization_id |-> customers[customer].organization_id,
                       customer_id |-> customer,
                       carrier_id |-> Null,
                       status |-> "pending"]),
                 users, Row)
    ELSE Outcome(customers, carriers, shipments, users, FkViolation)

\* -- name: CreateShipment :one
\* customer_id REFERENCES customers(id) is checked; status defaults to 'pending'
\* and carrier_id to NULL
CreateShipmentStmt(org, customer) ==
    IF customer \in DOMAIN customers
    THEN Outcome(customers, carriers,
                 With(shipments, nextId.shipments,
                      [organization_id |-> org,
                       customer_id |-> customer,
                       carrier_id |-> Null,
                       status |-> "pending"]),
                 users, Row)
    ELSE Outcome(customers, carriers, shipments, users, FkViolation)

CreateShipment(org, customer) ==
    /\ Inserted < MaxRows
    /\ Commit(CreateShipmentStmt(org, customer))
    /\ nextId' = IF CreateShipmentStmt(org, customer).returns = Row
                 THEN [nextId EXCEPT !.shipments = @ + 1]
                 ELSE nextId

\* UpdateShipment with carrier_id = $3 in place of COALESCE($3, carrier_id)
UpdateShipmentStmtCarrierAsGiven(id, org, carrier, status) ==
    LET hit == {s \in DOMAIN shipments :
                    s = id /\ shipments[s].organization_id = org}
        new == [s \in DOMAIN shipments |->
                    IF s \in hit
                    THEN [shipments[s] EXCEPT
                            !.carrier_id = carrier,
                            !.status = Coalesce(status, @)]
                    ELSE shipments[s]]
        fk  == \A s \in hit :
                    new[s].carrier_id = Null \/ new[s].carrier_id[1] \in DOMAIN carriers
    IN  IF fk
        THEN Outcome(customers, carriers, new, users,
                     IF hit = {} THEN NoRows ELSE Row)
        ELSE Outcome(customers, carriers, shipments, users, FkViolation)

\* -- name: UpdateShipment :one
\* carrier_id REFERENCES carriers(id) is checked on the updated row
UpdateShipmentStmt(id, org, carrier, status) ==
    LET hit == {s \in DOMAIN shipments :
                    s = id /\ shipments[s].organization_id = org}
        new == [s \in DOMAIN shipments |->
                    IF s \in hit
                    THEN [shipments[s] EXCEPT
                            !.carrier_id = CoalesceNullable(carrier, @),
                            !.status = Coalesce(status, @)]
                    ELSE shipments[s]]
        fk  == \A s \in hit :
                    new[s].carrier_id = Null \/ new[s].carrier_id[1] \in DOMAIN carriers
    IN  IF fk
        THEN Outcome(customers, carriers, new, users,
                     IF hit = {} THEN NoRows ELSE Row)
        ELSE Outcome(customers, carriers, shipments, users, FkViolation)

UpdateShipment(id, org, carrier, status) ==
    /\ Commit(UpdateShipmentStmt(id, org, carrier, status))
    /\ UNCHANGED nextId

\* UpdateShipmentStatus with WHERE id = $1 alone
UpdateShipmentStatusStmtAnyOrg(id, org, status) ==
    LET hit == {s \in DOMAIN shipments : s = id}
    IN  Outcome(customers, carriers,
                [s \in DOMAIN shipments |->
                    IF s \in hit
                    THEN [shipments[s] EXCEPT !.status = status]
                    ELSE shipments[s]],
                users,
                IF hit = {} THEN NoRows ELSE Row)

\* -- name: UpdateShipmentStatus :one
UpdateShipmentStatusStmt(id, org, status) ==
    LET hit == {s \in DOMAIN shipments :
                    s = id /\ shipments[s].organization_id = org}
    IN  Outcome(customers, carriers,
                [s \in DOMAIN shipments |->
                    IF s \in hit
                    THEN [shipments[s] EXCEPT !.status = status]
                    ELSE shipments[s]],
                users,
                IF hit = {} THEN NoRows ELSE Row)

UpdateShipmentStatus(id, org, status) ==
    /\ Commit(UpdateShipmentStatusStmt(id, org, status))
    /\ UNCHANGED nextId

\* AssignCarrier that sets 'assigned' on a pending shipment only
AssignCarrierStmtForwardOnly(id, org, carrier) ==
    LET hit == {s \in DOMAIN shipments :
                    s = id /\ shipments[s].organization_id = org}
        fk  == hit = {} \/ carrier = Null \/ carrier[1] \in DOMAIN carriers
    IN  IF fk
        THEN Outcome(customers, carriers,
                     [s \in DOMAIN shipments |->
                        IF s \in hit
                        THEN [shipments[s] EXCEPT
                                !.carrier_id = carrier,
                                !.status = IF @ = "pending" THEN "assigned" ELSE @]
                        ELSE shipments[s]],
                     users,
                     IF hit = {} THEN NoRows ELSE Row)
        ELSE Outcome(customers, carriers, shipments, users, FkViolation)

\* AssignCarrier that puts a shipment left without carrier back to 'pending'
AssignCarrierStmtUnassignResets(id, org, carrier) ==
    LET hit == {s \in DOMAIN shipments :
                    s = id /\ shipments[s].organization_id = org}
        fk  == hit = {} \/ carrier = Null \/ carrier[1] \in DOMAIN carriers
    IN  IF fk
        THEN Outcome(customers, carriers,
                     [s \in DOMAIN shipments |->
                        IF s \in hit
                        THEN [shipments[s] EXCEPT
                                !.carrier_id = carrier,
                                !.status = IF carrier = Null THEN "pending"
                                           ELSE "assigned"]
                        ELSE shipments[s]],
                     users,
                     IF hit = {} THEN NoRows ELSE Row)
        ELSE Outcome(customers, carriers, shipments, users, FkViolation)

\* -- name: AssignCarrier :one
\* carrier_id REFERENCES carriers(id) is checked on the updated row
AssignCarrierStmt(id, org, carrier) ==
    LET hit == {s \in DOMAIN shipments :
                    s = id /\ shipments[s].organization_id = org}
        fk  == hit = {} \/ carrier = Null \/ carrier[1] \in DOMAIN carriers
    IN  IF fk
        THEN Outcome(customers, carriers,
                     [s \in DOMAIN shipments |->
                        IF s \in hit
                        THEN [shipments[s] EXCEPT
                                !.carrier_id = carrier,
                                !.status = "assigned"]
                        ELSE shipments[s]],
                     users,
                     IF hit = {} THEN NoRows ELSE Row)
        ELSE Outcome(customers, carriers, shipments, users, FkViolation)

AssignCarrier(id, org, carrier) ==
    /\ Commit(AssignCarrierStmt(id, org, carrier))
    /\ UNCHANGED nextId

\* DeleteShipment with WHERE id = $1 alone
DeleteShipmentStmtAnyOrg(id, org) ==
    LET hit == {s \in DOMAIN shipments : s = id}
    IN  Outcome(customers, carriers, Without(shipments, hit), users, ExecOk)

\* -- name: DeleteShipment :exec
DeleteShipmentStmt(id, org) ==
    LET hit == {s \in DOMAIN shipments :
                    s = id /\ shipments[s].organization_id = org}
    IN  Outcome(customers, carriers, Without(shipments, hit), users, ExecOk)

DeleteShipment(id, org) ==
    /\ Commit(DeleteShipmentStmt(id, org))
    /\ UNCHANGED nextId

---------------------------------------------------------------------------
(* users.sql.  The statements that address one user take the user's id and  *)
(* no organization_id: their methods have no parameter for the caller's     *)
(* organization.  (The role column is left out of the rows.)                *)

\* -- name: GetUser :one
GetUser(id) ==
    LET hit == {u \in DOMAIN users : u = id}
    IN  IF hit = {} THEN Null ELSE Some([id |-> id] @@ users[id])

\* -- name: GetUserByEmail :one
\* email is UNIQUE: at most one row
GetUserByEmail(email) ==
    LET hit == {u \in DOMAIN users : users[u].email = email}
    IN  IF hit = {} THEN Null
        ELSE LET u == CHOOSE u \in hit : TRUE IN Some([id |-> u] @@ users[u])

\* -- name: ListUsersByOrganization :many
\* ORDER BY email ASC
ListUsersByOrganization(org) ==
    LET hit == {u \in DOMAIN users : users[u].organization_id = org}
    IN  {[i \in DOMAIN p |-> [id |-> p[i]] @@ users[p[i]]] :
            p \in OrdersByText(hit, [u \in DOMAIN users |-> users[u].email])}

\* users.email ... UNIQUE
EmailsUnique(us) ==
    \A u, v \in DOMAIN us : us[u].email = us[v].email => u = v

\* -- name: CreateUser :one
CreateUserStmt(org, email, hash, active) ==
    LET new == With(users, nextId.users,
                    [organization_id |-> org, email |-> email,
                     password_hash |-> hash, active |-> active])
    IN  IF EmailsUnique(new)
        THEN Outcome(customers, carriers, shipments, new, Row)
        ELSE Outcome(customers, carriers, shipments, users, UniqueViolation)

CreateUser(org, email, hash, active) ==
    /\ Inserted < MaxRows
    /\ Commit(CreateUserStmt(org, email, hash, active))
    /\ nextId' = IF CreateUserStmt(org, email, hash, active).returns = Row
                 THEN [nextId EXCEPT !.users = @ + 1]
                 ELSE nextId

\* -- name: UpdateUser :one
UpdateUserStmt(id, email, active) ==
    LET hit == {u \in DOMAIN users : u = id}
        new == [u \in DOMAIN users |->
                    IF u \in hit
                    THEN [users[u] EXCEPT
                            !.email = Coalesce(email, @),
                            !.active = Coalesce(active, @)]
                    ELSE users[u]]
    IN  IF EmailsUnique(new)
        THEN Outcome(customers, carriers, shipments, new,
                     IF hit = {} THEN NoRows ELSE Row)
        ELSE Outcome(customers, carriers, shipments, users, UniqueViolation)

UpdateUser(id, email, active) ==
    /\ Commit(UpdateUserStmt(id, email, active))
    /\ UNCHANGED nextId

\* -- name: UpdateUserPassword :one
UpdateUserPasswordStmt(id, hash) ==
    LET hit == {u \in DOMAIN users : u = id}
    IN  Outcome(customers, carriers, shipments,
                [u \in DOMAIN users |->
                    IF u \in hit
                    THEN [users[u] EXCEPT !.password_hash = hash]
                    ELSE users[u]],
                IF hit = {} THEN NoRows ELSE Row)

UpdateUserPassword(id, hash) ==
    /\ Commit(UpdateUserPasswordStmt(id, hash))
    /\ UNCHANGED nextId

\* -- name: DeactivateUser :one
DeactivateUserStmt(id) ==
    LET hit == {u \in DOMAIN users : u = id}
    IN  Outcome(customers, carriers, shipments,
                [u \in DOMAIN users |->
                    IF u \in hit THEN [users[u] EXCEPT !.active = FALSE] ELSE users[u]],
                IF hit = {} THEN NoRows ELSE Row)

DeactivateUser(id) ==
    /\ Commit(DeactivateUserStmt(id))
    /\ UNCHANGED nextId

\* -- name: ActivateUser :one
ActivateUserStmt(id) ==
    LET hit == {u \in DOMAIN users : u = id}
    IN  Outcome(customers, carriers, shipments,
                [u \in DOMAIN users |->
                    IF u \in hit THEN [users[u] EXCEPT !.active = TRUE] ELSE users[u]],
                IF hit = {} THEN NoRows ELSE Row)

ActivateUser(id) ==
    /\ Commit(ActivateUserStmt(id))
    /\ UNCHANGED nextId

\* -- name: DeleteUser :exec
DeleteUserStmt(id) ==
    LET hit == {u \in DOMAIN users : u = id}
    IN  Outcome(customers, carriers, shipments, Without(users, hit), ExecOk)

DeleteUser(id) ==
    /\ Commit(DeleteUserStmt(id))
    /\ UNCHANGED nextId

---------------------------------------------------------------------------
(* organizations.sql.  An organization is a tenant: its statements take the *)
(* organization's id and nothing else.  (ListOrganizations, which no other  *)
(* statement depends on, is left out.)                                      *)

OrgNames == {"Acme", "Best", "Cars"}

OrgSlugs == {"acme", "best", "cars"}

\* the organizations table as a statement leaves it and what its method returns
OrgOutcome(orgs, ret) == [organizations |-> orgs, returns |-> ret]

CommitOrganizations(out) ==
    /\ organizations' = out.organizations
    /\ UNCHANGED <<customers, carriers, shipments, users, nextId, schema>>
    /\ UNCHANGED migVars

\* -- name: GetOrganization :one
GetOrganization(id) ==
    LET hit == {o \in DOMAIN organizations : o = id}
    IN  IF hit = {} THEN Null ELSE Some([id |-> id] @@ organizations[id])

\* -- name: GetOrganizationBySlug :one
\* slug is UNIQUE: at most one row
GetOrganizationBySlug(slug) ==
    LET hit == {o \in DOMAIN organizations : organizations[o].slug = slug}
    IN  IF hit = {} THEN Null
        ELSE LET o == CHOOSE o \in hit : TRUE IN Some([id |-> o] @@ organizations[o])

\* -- name: CountActiveOrganizations :one
CountActiveOrganizations ==
    Cardinality({o \in DOMAIN organizations : organizations[o].active = TRUE})

\* organizations.slug ... UNIQUE
SlugsUnique(orgs) ==
    \A o, q \in DOMAIN orgs : orgs[o].slug = orgs[q].slug => o = q

\* -- name: CreateOrganization :one
\* id is the uuid_generate_v4() of the insert, an id of no row
CreateOrganizationStmt(id, name, slug, active) ==
    LET new == With(organizations, id,
                    [name |-> name, slug |-> slug, active |-> active])
    IN  IF SlugsUnique(new)
        THEN OrgOutcome(new, Row)
        ELSE OrgOutcome(organizations, UniqueViolation)

CreateOrganization(name, slug, active) ==
    \E id \in Orgs \ DOMAIN organizations :
        CommitOrganizations(CreateOrganizationStmt(id, name, slug, active))

\* -- name: UpdateOrganization :one
UpdateOrganizationStmt(id, name, slug, active) ==
    LET hit == {o \in DOMAIN organizations : o = id}
        new == [o \in DOMAIN organizations |->
                    IF o \in hit
                    THEN [organizations[o] EXCEPT
                            !.name = Coalesce(name, @),
                            !.slug = Coalesce(slug, @),
                            !.active = Coalesce(active, @)]
                    ELSE organizations[o]]
    IN  IF SlugsUnique(new)
        THEN OrgOutcome(new, IF hit = {} THEN NoRows ELSE Row)
        ELSE OrgOutcome(organizations, UniqueViolation)

UpdateOrganization(id, name, slug, active) ==
    CommitOrganizations(UpdateOrganizationStmt(id, name, slug, active))

---------------------------------------------------------------------------
(* internal/database/migrations.go                                         *)
(*                                                                         *)
(* RunMigrations, RollbackMigration and MigrationVersion hand the work to   *)
(* golang-migrate (m.Up, m.Steps(-1), m.Version) over the embedded          *)
(* migrations/*.sql and the postgres driver: the driver keeps one row       *)
(* (version, dirty) in schema_migrations and serialises Up and Steps with   *)
(* pg_advisory_lock, for which m waits at most LockTimeout.  A call is a    *)
(* sequence of steps of the calling process: Lock, CheckDirty, and per      *)
(* script NextMigration (the version is recorded with dirty = true) and     *)
(* RunScript (the script runs; dirty is cleared when it succeeded).         *)

\* the processes that call the functions of migrations.go
Procs == {"p1", "p2"}

\* lockedBy when no process holds the advisory lock
NoProc == "none"

\* the embedded versions, from the file names NNNNNN_name.up.sql / .down.sql
Versions == 1..MaxVersion

\* version when schema_migrations holds no row (database.NilVersion); m.Version
\* reports it as version 0 with ErrNilVersion
NilVersion == 0

\* what a call returned: nil, or the error of the library that the function wraps
Nil == "nil"

ErrDirty == "ErrDirty"

ErrLockTimeout == "ErrLockTimeout"

ErrNotExist == "ErrNotExist"

ScriptError == "ScriptError"

IsError(ret) == ret \in {ErrDirty, ErrLockTimeout, ErrNotExist, ScriptError}

\* a process that has called nothing yet
IdleProc ==
    [pc |-> "idle", op |-> "none", calls |-> 0, from |-> NilVersion,
     script |-> NilVersion, ran |-> <<>>, failed |-> NilVersion,
     ret |-> "none", endVersion |-> NilVersion, endDirty |-> FALSE]

\* the process p after its call returned ret, the database being at (v, d)
Returned(p, ret, v, d) ==
    [p EXCEPT !.pc = "idle", !.ret = ret, !.endVersion = v, !.endDirty = d]

\* a call of op ("up": RunMigrations, "down": RollbackMigration) begins: the
\* source and the migrate instance are created
Call(r, op) ==
    /\ proc[r].pc = "idle"
    /\ proc[r].calls < MaxCalls
    /\ proc' = [proc EXCEPT ![r] =
                    [IdleProc EXCEPT !.pc = "locking", !.op = op,
                                     !.calls = proc[r].calls + 1]]
    /\ UNCHANGED <<version, dirty, lockedBy, upRuns, downRuns, server>>
    /\ UNCHANGED dataVars

\* func RunMigrations(databaseURL string) error
RunMigrations(r) == Call(r, "up")

\* func RollbackMigration(databaseURL string) error
RollbackMigration(r) == Call(r, "down")

\* Lock that is granted while another process holds the lock
LockNotExclusive(r) ==
    /\ proc[r].pc = "locking"
    /\ lockedBy' = r
    /\ proc' = [proc EXCEPT ![r].pc = "locked"]
    /\ UNCHANGED <<version, dirty, upRuns, downRuns, server>>
    /\ UNCHANGED dataVars

\* m.lock(): pg_advisory_lock is granted
Lock(r) ==
    /\ proc[r].pc = "locking"
    /\ lockedBy = NoProc
    /\ lockedBy' = r
    /\ proc' = [proc EXCEPT ![r].pc = "locked"]
    /\ UNCHANGED <<version, dirty, upRuns, downRuns, server>>
    /\ UNCHANGED dataVars

\* m.lock(): LockTimeout passes while another process holds the lock; the
\* call returns the error, wrapped
LockTimeout(r) ==
    /\ proc[r].pc = "locking"
    /\ lockedBy # NoProc
    /\ proc' = [proc EXCEPT ![r] = Returned(@, ErrLockTimeout, version, dirty)]
    /\ UNCHANGED <<version, dirty, lockedBy, upRuns, downRuns, server>>
    /\ UNCHANGED dataVars

\* CheckDirty that goes on whatever the dirty flag says
CheckDirtyIgnored(r) ==
    /\ proc[r].pc = "locked"
    /\ proc' = [proc EXCEPT ![r].pc = "next", ![r].from = version]
    /\ UNCHANGED <<version, dirty, lockedBy, upRuns, downRuns, server>>
    /\ UNCHANGED dataVars

\* m.Up / m.Steps: the driver's Version() is read under the lock; a dirty
\* database ends the call with ErrDirty
CheckDirty(r) ==
    /\ proc[r].pc = "locked"
    /\ IF dirty
       THEN /\ proc' = [proc EXCEPT ![r] =
                            Returned([@ EXCEPT !.from = version],
                                     ErrDirty, version, dirty)]
            /\ lockedBy' = NoProc
       ELSE /\ proc' = [proc EXCEPT ![r].pc = "next", ![r].from = version]
            /\ UNCHANGED lockedBy
    /\ UNCHANGED <<version, dirty, upRuns, downRuns, server>>
    /\ UNCHANGED dataVars

\* NextMigration of an m.Steps(1) in place of m.Up: one up script per call
NextMigrationOneStep(r) ==
    /\ proc[r].pc = "next"
    /\ LET p    == proc[r]
           more == IF p.op = "up" THEN p.ran = <<>> /\ version < MaxVersion
                   ELSE p.ran = <<>> /\ version # NilVersion
           to   == IF p.op = "up" THEN version + 1 ELSE version - 1
           ret  == IF p.op = "down" /\ p.ran = <<>> THEN ErrNotExist ELSE Nil
       IN  IF more
           THEN /\ version' = to
                /\ dirty' = TRUE
                /\ proc' = [proc EXCEPT ![r].pc = "script",
                                ![r].script = IF p.op = "up" THEN to ELSE version]
                /\ UNCHANGED lockedBy
           ELSE /\ proc' = [proc EXCEPT ![r] = Returned(p, ret, version, dirty)]
                /\ lockedBy' = NoProc
                /\ UNCHANGED <<version, dirty>>
    /\ UNCHANGED <<upRuns, downRuns, server>>
    /\ UNCHANGED dataVars

\* NextMigration of a RunMigrations that hands m.Up's ErrNoChange on as an error
NextMigrationNoChangeIsError(r) ==
    /\ proc[r].pc = "next"
    /\ LET p    == proc[r]
           more == IF p.op = "up" THEN version < MaxVersion
                   ELSE p.ran = <<>> /\ version # NilVersion
           to   == IF p.op = "up" THEN version + 1 ELSE version - 1
           ret  == IF p.ran # <<>> THEN Nil
                   ELSE IF p.op = "down" THEN ErrNotExist ELSE "ErrNoChange"
       IN  IF more
           THEN /\ version' = to
                /\ dirty' = TRUE
                /\ proc' = [proc EXCEPT ![r].pc = "script",
                                ![r].script = IF p.op = "up" THEN to ELSE version]
                /\ UNCHANGED lockedBy
           ELSE /\ proc' = [proc EXCEPT ![r] = Returned(p, ret, version, dirty)]
                /\ lockedBy' = NoProc
                /\ UNCHANGED <<version, dirty>>
    /\ UNCHANGED <<upRuns, downRuns, server>>
    /\ UNCHANGED dataVars

\* NextMigration of an m.Down in place of m.Steps(-1): every version is rolled back
NextMigrationDownAll(r) ==
    /\ proc[r].pc = "next"
    /\ LET p    == proc[r]
           more == IF p.op = "up" THEN version < MaxVersion
                   ELSE version # NilVersion
           to   == IF p.op = "up" THEN version + 1 ELSE version - 1
           ret  == IF p.op = "down" /\ p.ran = <<>> THEN ErrNotExist ELSE Nil
       IN  IF more
           THEN /\ version' = to
                /\ dirty' = TRUE
                /\ proc' = [proc EXCEPT ![r].pc = "script",
                                ![r].script = IF p.op = "up" THEN to ELSE version]
                /\ UNCHANGED lockedBy
           ELSE /\ proc' = [proc EXCEPT ![r] = Returned(p, ret, version, dirty)]
                /\ lockedBy' = NoProc
                /\ UNCHANGED <<version, dirty>>
    /\ UNCHANGED <<upRuns, downRuns, server>>
    /\ UNCHANGED dataVars

\* NextMigration with nothing to roll back returned as nil, as ErrNoChange is
NextMigrationDownNothingIsNil(r) ==
    /\ proc[r].pc = "next"
    /\ LET p    == proc[r]
           more == IF p.op = "up" THEN version < MaxVersion
                   ELSE p.ran = <<>> /\ version # NilVersion
           to   == IF p.op = "up" THEN version + 1 ELSE version - 1
       IN  IF more
           THEN /\ version' = to
                /\ dirty' = TRUE
                /\ proc' = [proc EXCEPT ![r].pc = "script",
                                ![r].script = IF p.op = "up" THEN to ELSE version]
                /\ UNCHANGED lockedBy
           ELSE /\ proc' = [proc EXCEPT ![r] = Returned(p, Nil, version, dirty)]
                /\ lockedBy' = NoProc
                /\ UNCHANGED <<version, dirty>>
    /\ UNCHANGED <<upRuns, downRuns, server>>
    /\ UNCHANGED dataVars

\* m.Up: the next embedded version above the recorded one, if any, is recorded
\* with dirty = true before its up script runs; none left ends the call
\* (ErrNoChange when no script ran, which RunMigrations turns into nil).
\* m.Steps(-1): the same for the down script of the recorded version, with the
\* version below it recorded (none below the first); at most one script, and
\* nothing to roll back is the error os.ErrNotExist.
NextMigration(r) ==
    /\ proc[r].pc = "next"
    /\ LET p    == proc[r]
           more == IF p.op = "up" THEN version < MaxVersion
                   ELSE p.ran = <<>> /\ version # NilVersion
           to   == IF p.op = "up" THEN version + 1 ELSE version - 1
           ret  == IF p.op = "down" /\ p.ran = <<>> THEN ErrNotExist ELSE Nil
       IN  IF more
           THEN /\ version' = to
                /\ dirty' = TRUE
                /\ proc' = [proc EXCEPT ![r].pc = "script",
                                ![r].script = IF p.op = "up" THEN to ELSE version]
                /\ UNCHANGED lockedBy
           ELSE /\ proc' = [proc EXCEPT ![r] = Returned(p, ret, version, dirty)]
                /\ lockedBy' = NoProc
                /\ UNCHANGED <<version, dirty>>
    /\ UNCHANGED <<upRuns, downRuns, server>>
    /\ UNCHANGED dataVars

(* The embedded scripts, migrations/000001_initial_schema.up.sql and          *)
(* .down.sql, as the sequences of their statements over the schema objects.   *)
(* The repository holds version 1 only; the scripts of a later version are    *)
(* not known and leave the schema of the model as it is.                      *)

\* CREATE EXTENSION IF NOT EXISTS "uuid-ossp"
Extension == "uuid-ossp"

\* CREATE OR REPLACE FUNCTION update_updated_at_column()
Function == "update_updated_at_column"

\* what the definition of a table refers to: the extension for the DEFAULT
\* uuid_generate_v4(), the tables its columns REFERENCE, the enum types of
\* its columns
TableUses ==
    [organizations |-> {Extension},
     users |-> {Extension, "organizations", "user_role"},
     customers |-> {Extension, "organizations"},
     carriers |-> {Extension, "organizations"},
     shipments |-> {Extension, "organizations", "customers", "carriers",
                    "shipment_status"},
     vehicles |-> {Extension, "shipments", "vehicle_condition"}]

\* CREATE INDEX ... ON table
IndexOn ==
    [idx_users_organization_id |-> "users",
     idx_users_email |-> "users",
     idx_customers_organization_id |-> "customers",
     idx_customers_org_email |-> "customers",
     idx_carriers_organization_id |-> "carriers",
     idx_carriers_org_active |-> "carriers",
     idx_shipments_organization_id |-> "shipments",
     idx_shipments_org_status |-> "shipments",
     idx_shipments_org_created |-> "shipments",
     idx_shipments_customer_id |-> "shipments",
     idx_shipments_carrier_id |-> "shipments",
     idx_vehicles_shipment_id |-> "vehicles"]

\* CREATE TRIGGER ... BEFORE UPDATE ON table
TriggerOn ==
    [update_organizations_updated_at |-> "organizations",
     update_users_updated_at |-> "users",
     update_customers_updated_at |-> "customers",
     update_carriers_updated_at |-> "carriers",
     update_shipments_updated_at |-> "shipments",
     update_vehicles_updated_at |-> "vehicles"]

\* the objects that object o cannot be created without, and that cannot be
\* dropped (without CASCADE) while o exists
Requires(o) ==
    IF o \in DOMAIN TableUses THEN TableUses[o]
    ELSE IF o \in DOMAIN IndexOn THEN {IndexOn[o]}
    ELSE IF o \in DOMAIN TriggerOn THEN {TriggerOn[o], Function}
    ELSE {}

\* the indexes and triggers of table t, which are dropped with it
DroppedWith(t) ==
    {i \in DOMAIN IndexOn : IndexOn[i] = t}
        \cup {g \in DOMAIN TriggerOn : TriggerOn[g] = t}

Create(o) == [op |-> "create", obj |-> o]

\* CREATE ... IF NOT EXISTS / CREATE OR REPLACE
CreateOrKeep(o) == [op |-> "create_or_keep", obj |-> o]

\* DROP ... IF EXISTS
DropIfExists(o) == [op |-> "drop_if_exists", obj |-> o]

\* 000001_initial_schema.up.sql
UpScript ==
    <<CreateOrKeep(Extension),
      Create("organizations"),
      Create("user_role"),
      Create("users"),
      Create("customers"),
      Create("carriers"),
      Create("shipment_status"),
      Create("vehicle_condition"),
      Create("shipments"),
      Create("vehicles"),
      Create("idx_users_organization_id"),
      Create("idx_users_email"),
      Create("idx_customers_organization_id"),
      Create("idx_customers_org_email"),
      Create("idx_carriers_organization_id"),
      Create("idx_carriers_org_active"),
      Create("idx_shipments_organization_id"),
      Create("idx_shipments_org_status"),
      Create("idx_shipments_org_created"),
      Create("idx_shipments_customer_id"),
      Create("idx_shipments_carrier_id"),
      Create("idx_vehicles_shipment_id"),
      CreateOrKeep(Function),
      Create("update_organizations_updated_at"),
      Create("update_users_updated_at"),
      Create("update_customers_updated_at"),
      Create("update_carriers_updated_at"),
      Create("update_shipments_updated_at"),
      Create("update_vehicles_updated_at")>>

\* the down script without its DROP TYPE statements
DownScriptKeepsTypes ==
    <<DropIfExists("update_vehicles_updated_at"),
      DropIfExists("update_shipments_updated_at"),
      DropIfExists("update_carriers_updated_at"),
      DropIfExists("update_customers_updated_at"),
      DropIfExists("update_users_updated_at"),
      DropIfExists("update_organizations_updated_at"),
      DropIfExists(Function),
      DropIfExists("idx_vehicles_shipment_id"),
      DropIfExists("idx_shipments_carrier_id"),
      DropIfExists("idx_shipments_customer_id"),
      DropIfExists("idx_shipments_org_created"),
      DropIfExists("idx_shipments_org_status"),
      DropIfExists("idx_shipments_organization_id"),
      DropIfExists("idx_carriers_org_active"),
      DropIfExists("idx_carriers_organization_id"),
      DropIfExists("idx_customers_org_email"),
      DropIfExists("idx_customers_organization_id"),
      DropIfExists("idx_users_email"),
      DropIfExists("idx_users_organization_id"),
      DropIfExists("vehicles"),
      DropIfExists("shipments"),
      DropIfExists("carriers"),
      DropIfExists("customers"),
      DropIfExists("users"),
      DropIfExists("organizations")>>

\* 000001_initial_schema.down.sql
DownScript ==
    <<DropIfExists("update_vehicles_updated_at"),
      DropIfExists("update_shipments_updated_at"),
      DropIfExists("update_carriers_updated_at"),
      DropIfExists("update_customers_updated_at"),
      DropIfExists("update_users_updated_at"),
      DropIfExists("update_organizations_updated_at"),
      DropIfExists(Function),
      DropIfExists("idx_vehicles_shipment_id"),
      DropIfExists("idx_shipments_carrier_id"),
      DropIfExists("idx_shipments_customer_id"),
      DropIfExists("idx_shipments_org_created"),
      DropIfExists("idx_shipments_org_status"),
      DropIfExists("idx_shipments_organization_id"),
      DropIfExists("idx_carriers_org_active"),
      DropIfExists("idx_carriers_organization_id"),
      DropIfExists("idx_customers_org_email"),
      DropIfExists("idx_customers_organization_id"),
      DropIfExists("idx_users_email"),
      DropIfExists("idx_users_organization_id"),
      DropIfExists("vehicles"),
      DropIfExists("shipments"),
      DropIfExists("carriers"),
      DropIfExists("customers"),
      DropIfExists("users"),
      DropIfExists("organizations"),
      DropIfExists("vehicle_condition"),
      DropIfExists("shipment_status"),
      DropIfExists("user_role")>>

\* the script of version v in direction op
Script(op, v) ==
    IF v # 1 THEN <<>>
    ELSE IF op = "up" THEN UpScript ELSE DownScript

\* the result of a statement or script: whether it succeeded, and the schema
\* it leaves
Done(sch) == [ok |-> TRUE, schema |-> sch]

Failed(sch) == [ok |-> FALSE, schema |-> sch]

\* one statement on the schema sch.  CREATE fails when the object exists or
\* something it refers to does not; DROP fails when another object that
\* stays refers to the object, and takes a table's indexes and triggers with
\* the table.
Exec(sch, st) ==
    CASE st.op = "create" ->
            IF st.obj \notin sch /\ Requires(st.obj) \subseteq sch
            THEN Done(sch \cup {st.obj}) ELSE Failed(sch)
      [] st.op = "create_or_keep" ->
            IF Requires(st.obj) \subseteq sch
            THEN Done(sch \cup {st.obj}) ELSE Failed(sch)
      [] st.op = "drop_if_exists" ->
            LET gone == {st.obj} \cup DroppedWith(st.obj)
            IN  IF st.obj \notin sch THEN Done(sch)
                ELSE IF \E o \in sch \ gone : st.obj \in Requires(o)
                     THEN Failed(sch)
                     ELSE Done(sch \ gone)

RECURSIVE RunStatements(_, _)
\* the statements of a script, in order, up to the first that fails
RunStatements(sch, script) ==
    IF script = <<>> THEN Done(sch)
    ELSE LET r == Exec(sch, Head(script))
         IN  IF r.ok THEN RunStatements(r.schema, Tail(script)) ELSE r

\* the schema the up script creates in an empty database
AppSchema == RunStatements({}, UpScript).schema

\* RunScript whose failed script takes the recorded version back with it
RunScriptFailureUnrecorded(r, ok) ==
    /\ proc[r].pc = "script"
    /\ LET p == proc[r]
       IN  /\ IF p.op = "up"
              THEN /\ upRuns' = [upRuns EXCEPT ![p.script] = @ + 1]
                   /\ UNCHANGED downRuns
              ELSE /\ downRuns' = [downRuns EXCEPT ![p.script] = @ + 1]
                   /\ UNCHANGED upRuns
           /\ IF ok
              THEN /\ dirty' = FALSE
                   /\ proc' = [proc EXCEPT ![r].pc = "next",
                                   ![r].ran = Append(p.ran, p.script)]
                   /\ UNCHANGED <<lockedBy, version>>
              ELSE /\ version' = IF p.op = "up" THEN version - 1 ELSE version + 1
                   /\ dirty' = FALSE
                   /\ proc' = [proc EXCEPT ![r] =
                                   Returned([p EXCEPT !.failed = p.script],
                                            ScriptError, version', FALSE)]
                   /\ lockedBy' = NoProc
           /\ LET res == RunStatements(schema, Script(p.op, p.script))
              IN  /\ ok => res.ok
                  /\ schema' = IF ok THEN res.schema ELSE schema
    /\ UNCHANGED server
    /\ UNCHANGED rowVars

\* the script of the recorded step runs, all of its statements in one
\* transaction: when it succeeds (which takes that each statement applies) the
\* schema is the one its statements leave and the dirty flag is cleared
\* (SetVersion(v, false)); when it fails the schema is as before, the call
\* ends with its error and the flag stays
RunScript(r, ok) ==
    /\ proc[r].pc = "script"
    /\ LET p == proc[r]
       IN  /\ IF p.op = "up"
              THEN /\ upRuns' = [upRuns EXCEPT ![p.script] = @ + 1]
                   /\ UNCHANGED downRuns
              ELSE /\ downRuns' = [downRuns EXCEPT ![p.script] = @ + 1]
                   /\ UNCHANGED upRuns
           /\ IF ok
              THEN /\ dirty' = FALSE
                   /\ proc' = [proc EXCEPT ![r].pc = "next",
                                   ![r].ran = Append(p.ran, p.script)]
                   /\ UNCHANGED lockedBy
              ELSE /\ proc' = [proc EXCEPT ![r] =
                                   Returned([p EXCEPT !.failed = p.script],
                                            ScriptError, version, TRUE)]
                   /\ lockedBy' = NoProc
                   /\ UNCHANGED dirty
           /\ LET res == RunStatements(schema, Script(p.op, p.script))
              IN  /\ ok => res.ok
                  /\ schema' = IF ok THEN res.schema ELSE schema
    /\ UNCHANGED <<version, server>>
    /\ UNCHANGED rowVars

\* func MigrationVersion(databaseURL string) (uint, bool, error): m.Version()
\* without the lock; no row recorded (ErrNilVersion) is reported as (0, false)
MigrationVersion ==
    IF version = NilVersion THEN <<0, FALSE>> ELSE <<version, dirty>>

\* what can fail in a MigrationVersion call apart from the recorded state:
\* iofs.New, migrate.NewWithSourceInstance, or the driver's read of the version
NoFault == "none"

Faults == {NoFault, "source", "instance", "read"}

ErrNilVersion == "ErrNilVersion"

\* m.Version(): (version, dirty, err) of the library; no recorded version is
\* (0, false, ErrNilVersion), a failed read (0, false, the driver's error)
LibraryVersion(fault) ==
    IF fault = "read" THEN <<0, FALSE, "ReadError">>
    ELSE IF version = NilVersion THEN <<0, FALSE, ErrNilVersion>>
    ELSE <<version, dirty, Nil>>

\* MigrationVersion that returns ErrNilVersion like any other error
MigrationVersionReturnsNilVersionError(fault) ==
    IF fault = "source" THEN <<0, FALSE, "SourceError">>
    ELSE IF fault = "instance" THEN <<0, FALSE, "InstanceError">>
    ELSE LET r == LibraryVersion(fault)
         IN  IF r[3] # Nil
             THEN <<0, FALSE, "VersionError">>
             ELSE <<r[1], r[2], Nil>>

\* func MigrationVersion(databaseURL string) (uint, bool, error), with its
\* three error returns: (version, dirty, err) as the caller gets them
MigrationVersionReturns(fault) ==
    IF fault = "source" THEN <<0, FALSE, "SourceError">>
    ELSE IF fault = "instance" THEN <<0, FALSE, "InstanceError">>
    ELSE LET r == LibraryVersion(fault)
         IN  IF r[3] # Nil /\ r[3] # ErrNilVersion
             THEN <<0, FALSE, "VersionError">>
             ELSE <<r[1], r[2], Nil>>

---------------------------------------------------------------------------
(* cmd/server/main.go                                                      *)

\* The process of main: main itself (waiting at <-quit, signalled, in
\* srv.Shutdown, returned), the listener goroutine (start: ListenAndServe not
\* yet accepting, serving, closed: it returned http.ErrServerClosed, failed:
\* it returned another error), the number of srv.Shutdown calls, whether
\* "Server exited" was logged, and how the process ended (running while it
\* has not)
ServerStart ==
    [main |-> "waiting", listener |-> "start", shutdowns |-> 0,
     logged |-> FALSE, exit |-> "running"]

\* the process while it accepts requests and no signal has arrived
Serving == [ServerStart EXCEPT !.listener = "serving"]

\* srv.Shutdown has been called: ListenAndServe returns ErrServerClosed
ShuttingDown == server.shutdowns > 0

\* go func() { srv.ListenAndServe() }(): the server accepts requests
ListenAndServe ==
    /\ server.exit = "running"
    /\ server.listener = "start"
    /\ ~ShuttingDown
    /\ server' = [server EXCEPT !.listener = "serving"]
    /\ UNCHANGED <<version, dirty, lockedBy, proc, upRuns, downRuns>>
    /\ UNCHANGED dataVars

\* ListenAndServe returns http.ErrServerClosed, which it does once Shutdown
\* has been called: the goroutine ends and the process goes on
ListenClosed ==
    /\ server.exit = "running"
    /\ server.listener \in {"start", "serving"}
    /\ ShuttingDown
    /\ server' = [server EXCEPT !.listener = "closed"]
    /\ UNCHANGED <<version, dirty, lockedBy, proc, upRuns, downRuns>>
    /\ UNCHANGED dataVars

\* the mutant of ListenFails below: the goroutine logs the error and ends
ListenFailsLogsOnly ==
    /\ server.exit = "running"
    /\ server.listener \in {"start", "serving"}
    /\ ~ShuttingDown
    /\ server' = [server EXCEPT !.listener = "failed"]
    /\ UNCHANGED <<version, dirty, lockedBy, proc, upRuns, downRuns>>
    /\ UNCHANGED dataVars

\* ListenAndServe returns an error other than ErrServerClosed (the address
\* cannot be bound, Accept fails): log.Fatalf ends the process, wherever main
\* is
ListenFails ==
    /\ server.exit = "running"
    /\ server.listener \in {"start", "serving"}
    /\ ~ShuttingDown
    /\ server' = [server EXCEPT !.listener = "failed", !.exit = "fatal"]
    /\ UNCHANGED <<version, dirty, lockedBy, proc, upRuns, downRuns>>
    /\ UNCHANGED dataVars

\* <-quit: SIGINT or SIGTERM arrives
Quit ==
    /\ server.exit = "running"
    /\ server.main = "waiting"
    /\ server' = [server EXCEPT !.main = "signalled"]
    /\ UNCHANGED <<version, dirty, lockedBy, proc, upRuns, downRuns>>
    /\ UNCHANGED dataVars

\* main calls srv.Shutdown(ctx)
Shutdown ==
    /\ server.exit = "running"
    /\ server.main = "signalled"
    /\ server' = [server EXCEPT !.main = "shutdown",
                                !.shutdowns = server.shutdowns + 1]
    /\ UNCHANGED <<version, dirty, lockedBy, proc, upRuns, downRuns>>
    /\ UNCHANGED dataVars

\* srv.Shutdown returns: nil (ok), main logs "Server exited" and returns, or
\* an error (the 30 s context ran out), log.Fatalf
ShutdownReturns(ok) ==
    /\ server.exit = "running"
    /\ server.main = "shutdown"
    /\ server' = IF ok
                 THEN [server EXCEPT !.main = "returned", !.logged = TRUE,
                                     !.exit = "normal"]
                 ELSE [server EXCEPT !.exit = "fatal"]
    /\ UNCHANGED <<version, dirty, lockedBy, proc, upRuns, downRuns>>
    /\ UNCHANGED dataVars

\* a database without schema_migrations row, no process has called anything
\* and main has just begun
MigrationInit ==
    /\ customers = <<>>
    /\ carriers = <<>>
    /\ shipments = <<>>
    /\ users = <<>>
    /\ organizations = <<>>
    /\ schema = {}
    /\ nextId = [customers |-> 1, carriers |-> 1, shipments |-> 1, users |-> 1]
    /\ version = NilVersion
    /\ dirty = FALSE
    /\ lockedBy = NoProc
    /\ proc = [r \in Procs |-> IdleProc]
    /\ upRuns = [v \in Versions |-> 0]
    /\ downRuns = [v \in Versions |-> 0]
    /\ server = ServerStart

MigrationNext ==
    \/ \E r \in Procs : RunMigrations(r)
    \/ \E r \in Procs : RollbackMigration(r)
    \/ \E r \in Procs : Lock(r)
    \/ \E r \in Procs : LockTimeout(r)
    \/ \E r \in Procs : CheckDirty(r)
    \/ \E r \in Procs : NextMigration(r)
    \/ \E r \in Procs, ok \in BOOLEAN : RunScript(r, ok)
    \/ ListenAndServe
    \/ ListenClosed
    \/ ListenFails
    \/ Quit
    \/ Shutdown
    \/ \E ok \in BOOLEAN : ShutdownReturns(ok)

MigrationSpec == MigrationInit /\ [][MigrationNext]_vars

---------------------------------------------------------------------------
(* The database after the up migration: the organizations exist and every    *)
(* tenant-owned table is empty.                                              *)

\* the organizations of the tenants, one of them deactivated
TenantRows ==
    [o \in Orgs |->
        IF o = "orgA"
        THEN [name |-> "Acme", slug |-> "acme", active |-> TRUE]
        ELSE [name |-> "Best", slug |-> "best", active |-> FALSE]]

Init ==
    /\ customers = <<>>
    /\ carriers = <<>>
    /\ shipments = <<>>
    /\ users = <<>>
    /\ organizations = TenantRows
    /\ schema = AppSchema
    /\ nextId = [customers |-> 1, carriers |-> 1, shipments |-> 1, users |-> 1]
    /\ version = MaxVersion
    /\ dirty = FALSE
    /\ lockedBy = NoProc
    /\ proc = [r \in Procs |-> IdleProc]
    /\ upRuns = [v \in Versions |-> 1]
    /\ downRuns = [v \in Versions |-> 0]
    /\ server = Serving

NullOr(S) == {Null} \cup {Some(v) : v \in S}

\* A statement addressed to an id of no row writes nothing (a stuttering step),
\* so the ids of Next are those of the rows there are; a referenced id
\* (customer_id, carrier_id) may be the id of no row.
Next ==
    \/ \E org \in Orgs, name \in CustomerNames : CreateCustomer(org, name)
    \/ \E id \in DOMAIN customers, org \in Orgs, name \in NullOr(CustomerNames) :
            UpdateCustomer(id, org, name)
    \/ \E id \in DOMAIN customers, org \in Orgs : DeleteCustomer(id, org)
    \/ \E org \in Orgs, name \in CompanyNames, active \in BOOLEAN :
            CreateCarrier(org, name, active)
    \/ \E id \in DOMAIN carriers, org \in Orgs,
          name \in NullOr(CompanyNames), active \in NullOr(BOOLEAN) :
            UpdateCarrier(id, org, name, active)
    \/ \E id \in DOMAIN carriers, org \in Orgs : DeactivateCarrier(id, org)
    \/ \E id \in DOMAIN carriers, org \in Orgs : ActivateCarrier(id, org)
    \/ \E id \in DOMAIN carriers, org \in Orgs : DeleteCarrier(id, org)
    \/ \E org \in Orgs, customer \in IdsFor(customers) : CreateShipment(org, customer)
    \/ \E id \in DOMAIN shipments, org \in Orgs,
          carrier \in NullOr(IdsFor(carriers)), status \in NullOr(Statuses) :
            UpdateShipment(id, org, carrier, status)
    \/ \E id \in DOMAIN shipments, org \in Orgs, status \in Statuses :
            UpdateShipmentStatus(id, org, status)
    \/ \E id \in DOMAIN shipments, org \in Orgs, carrier \in NullOr(IdsFor(carriers)) :
            AssignCarrier(id, org, carrier)
    \/ \E id \in DOMAIN shipments, org \in Orgs : DeleteShipment(id, org)
    \/ \E org \in Orgs, email \in UserEmails, hash \in PasswordHashes, active \in BOOLEAN :
            CreateUser(org, email, hash, active)
    \/ \E id \in DOMAIN users, email \in NullOr(UserEmails), active \in NullOr(BOOLEAN) :
            UpdateUser(id, email, active)
    \/ \E id \in DOMAIN users, hash \in PasswordHashes : UpdateUserPassword(id, hash)
    \/ \E id \in DOMAIN users : DeactivateUser(id)
    \/ \E id \in DOMAIN users : ActivateUser(id)
    \/ \E id \in DOMAIN users : DeleteUser(id)

Spec == Init /\ [][Next]_vars

---------------------------------------------------------------------------
(* The organizations table on its own: the database after the up migration,  *)
(* before the first organization is created.                                 *)

OrganizationsInit ==
    /\ customers = <<>>
    /\ carriers = <<>>
    /\ shipments = <<>>
    /\ users = <<>>
    /\ nextId = [customers |-> 1, carriers |-> 1, shipments |-> 1, users |-> 1]
    /\ organizations = <<>>
    /\ schema = AppSchema
    /\ version = MaxVersion
    /\ dirty = FALSE
    /\ lockedBy = NoProc
    /\ proc = [r \in Procs |-> IdleProc]
    /\ upRuns = [v \in Versions |-> 1]
    /\ downRuns = [v \in Versions |-> 0]
    /\ server = Serving

OrganizationsNext ==
    \/ \E name \in OrgNames, slug \in OrgSlugs, active \in BOOLEAN :
            CreateOrganization(name, slug, active)
    \/ \E id \in DOMAIN organizations, name \in NullOr(OrgNames),
          slug \in NullOr(OrgSlugs), active \in NullOr(BOOLEAN) :
            UpdateOrganization(id, name, slug, active)

OrganizationsSpec == OrganizationsInit /\ [][OrganizationsNext]_vars

---------------------------------------------------------------------------
(* Properties *)

\* the organizations other than org
Others(org) == Orgs \ {org}

\* the statement wrote nothing
WritesNothing(out) ==
    /\ out.customers = customers
    /\ out.carriers = carriers
    /\ out.shipments = shipments
    /\ out.users = users

\* C1: GetCustomer, GetCarrier and GetShipment called with the id of a row of
\* organization A and an organization B # A select no row, which is also what
\* they give for an id of no row, in every reachable state.
C1_GetByIdIsolated ==
    /\ \A c \in DOMAIN customers : \A B \in Others(customers[c].organization_id) :
            GetCustomer(c, B) = Null /\ GetCustomer(c, B) = GetCustomer(NoId, B)
    /\ \A c \in DOMAIN carriers : \A B \in Others(carriers[c].organization_id) :
            GetCarrier(c, B) = Null /\ GetCarrier(c, B) = GetCarrier(NoId, B)
    /\ \A s \in DOMAIN shipments : \A B \in Others(shipments[s].organization_id) :
            GetShipment(s, B) = Null /\ GetShipment(s, B) = GetShipment(NoId, B)

\* C1, the case: a customer, a carrier and a shipment of one organization, each
\* returned to its owner and asked for by another organization
C1_Witness ==
    \E c \in DOMAIN customers, k \in DOMAIN carriers, s \in DOMAIN shipments :
        \E A \in Orgs :
            /\ customers[c].organization_id = A
            /\ carriers[k].organization_id = A
            /\ shipments[s].organization_id = A
            /\ GetCustomer(c, A) # Null
            /\ GetCarrier(k, A) # Null
            /\ GetShipment(s, A) # Null
            /\ \E B \in Others(A) : GetShipment(s, B) = Null

\* C2: GetUser called for a user of organization A by an identity of another
\* organization B returns no row, and UpdateUser, UpdateUserPassword,
\* DeactivateUser, ActivateUser and DeleteUser on that id change no row.
C2_UserAccessScoped ==
    \A u \in DOMAIN users : \A B \in Others(users[u].organization_id) :
        /\ GetUser(u) = Null
        /\ \A email \in NullOr(UserEmails), active \in NullOr(BOOLEAN) :
                WritesNothing(UpdateUserStmt(u, email, active))
        /\ \A hash \in PasswordHashes : WritesNothing(UpdateUserPasswordStmt(u, hash))
        /\ WritesNothing(DeactivateUserStmt(u))
        /\ WritesNothing(ActivateUserStmt(u))
        /\ WritesNothing(DeleteUserStmt(u))

\* C3: every shipment's customer_id, and its carrier_id when not null, is the
\* id of a customer / carrier of the shipment's own organization.
C3_ShipmentRefsSameTenant ==
    \A s \in DOMAIN shipments :
        /\ shipments[s].customer_id \in DOMAIN customers
        /\ customers[shipments[s].customer_id].organization_id
                = shipments[s].organization_id
        /\ shipments[s].carrier_id # Null =>
                /\ shipments[s].carrier_id[1] \in DOMAIN carriers
                /\ carriers[shipments[s].carrier_id[1]].organization_id
                        = shipments[s].organization_id

\* C4: CreateShipment by organization A with a customer_id of another
\* organization's customer, or of no customer, fails and inserts no shipment.
C4_CreateShipmentRejectsForeignCustomer ==
    \A org \in Orgs, customer \in IdsFor(customers) :
        (customer \notin DOMAIN customers
            \/ customers[customer].organization_id # org)
        => /\ CreateShipmentStmt(org, customer).returns # Row
           /\ WritesNothing(CreateShipmentStmt(org, customer))

\* C5: AssignCarrier and UpdateShipment called by the owner of a shipment (one
\* of a customer of its own) with the carrier_id of another organization's
\* carrier are rejected and leave the shipment's carrier_id and status as they
\* were.
C5_ForeignCarrierRejected ==
    \A s \in DOMAIN shipments, k \in DOMAIN carriers :
        LET org == shipments[s].organization_id
        IN  (/\ shipments[s].customer_id \in DOMAIN customers
             /\ customers[shipments[s].customer_id].organization_id = org
             /\ carriers[k].organization_id # org)
            => /\ AssignCarrierStmt(s, org, Some(k)).returns # Row
               /\ AssignCarrierStmt(s, org, Some(k)).shipments[s] = shipments[s]
               /\ \A status \in NullOr(Statuses) :
                    /\ UpdateShipmentStmt(s, org, Some(k), status).returns # Row
                    /\ UpdateShipmentStmt(s, org, Some(k), status).shipments[s]
                            = shipments[s]

\* the ids of the rows of table t that organization org owns
OwnedBy(t, org) == {id \in DOMAIN t : t[id].organization_id = org}

\* every row of the result res is a row of organization org
AllOf(res, org) == \A i \in DOMAIN res : res[i].organization_id = org

\* C6: every list, search and count statement returns or counts only rows of
\* the organization passed, whatever the limit, the offset and the search text.
C6_ListsScoped ==
    \A org \in Orgs :
        /\ \A lim \in Limits, off \in Offsets :
            /\ AllOf(ListShipments(org, lim, off), org)
            /\ \A res \in ListCustomers(org, lim, off) : AllOf(res, org)
            /\ \A res \in ListCarriers(org, lim, off) : AllOf(res, org)
            /\ \A q \in SearchTexts :
                /\ \A res \in SearchCustomers(org, q, lim, off) : AllOf(res, org)
                /\ \A res \in SearchCarriers(org, q, lim, off) : AllOf(res, org)
        /\ \A res \in ListActiveCarriers(org) : AllOf(res, org)
        /\ \A res \in ListUsersByOrganization(org) : AllOf(res, org)
        /\ CountShipments(org) = Cardinality(OwnedBy(shipments, org))
        /\ \A status \in Statuses :
            CountShipmentsByStatus(org, status)
                = Cardinality({s \in OwnedBy(shipments, org) :
                                    shipments[s].status = status})

\* C6, the case: a search that returns rows to its caller while a customer of
\* another organization matches the same search text
C6_Witness ==
    \E org \in Orgs, q \in SearchTexts, lim \in Limits, off \in Offsets :
        /\ \E res \in SearchCustomers(org, q, lim, off) : Len(res) > 0
        /\ \E c \in DOMAIN customers :
            customers[c].organization_id # org /\ ILike(customers[c].name, q)

\* C7: an update called with the id of a row of organization A and another
\* organization B returns no row (NotFound) and writes nothing.
C7_ForeignUpdateNotFound ==
    LET NotFound(out) == out.returns = NoRows /\ WritesNothing(out)
    IN  /\ \A c \in DOMAIN customers : \A B \in Others(customers[c].organization_id) :
            \A name \in NullOr(CustomerNames) :
                NotFound(UpdateCustomerStmt(c, B, name))
        /\ \A k \in DOMAIN carriers : \A B \in Others(carriers[k].organization_id) :
            /\ \A name \in NullOr(CompanyNames), active \in NullOr(BOOLEAN) :
                NotFound(UpdateCarrierStmt(k, B, name, active))
            /\ NotFound(DeactivateCarrierStmt(k, B))
            /\ NotFound(ActivateCarrierStmt(k, B))
        /\ \A s \in DOMAIN shipments : \A B \in Others(shipments[s].organization_id) :
            /\ \A carrier \in NullOr(IdsFor(carriers)) :
                /\ \A status \in NullOr(Statuses) :
                    NotFound(UpdateShipmentStmt(s, B, carrier, status))
                /\ NotFound(AssignCarrierStmt(s, B, carrier))
            /\ \A status \in Statuses :
                NotFound(UpdateShipmentStatusStmt(s, B, status))

\* C7, the case: a shipment whose owner's status update takes effect while
\* the same update by another organization returns no row
C7_Witness ==
    \E s \in DOMAIN shipments :
        LET A == shipments[s].organization_id
        IN  /\ shipments[s].status # "delivered"
            /\ UpdateShipmentStatusStmt(s, A, "delivered").returns = Row
            /\ UpdateShipmentStatusStmt(s, A, "delivered").shipments[s].status
                    = "delivered"
            /\ \E B \in Others(A) :
                UpdateShipmentStatusStmt(s, B, "delivered").returns = NoRows

\* C8: DeleteCustomer, DeleteCarrier and DeleteShipment called with the id of
\* a row of organization A and another organization B delete nothing: the row
\* and the rows depending on it stay as they are.
C8_ForeignDeleteKeepsRows ==
    /\ \A c \in DOMAIN customers : \A B \in Others(customers[c].organization_id) :
        WritesNothing(DeleteCustomerStmt(c, B))
    /\ \A k \in DOMAIN carriers : \A B \in Others(carriers[k].organization_id) :
        WritesNothing(DeleteCarrierStmt(k, B))
    /\ \A s \in DOMAIN shipments : \A B \in Others(shipments[s].organization_id) :
        WritesNothing(DeleteShipmentStmt(s, B))

\* C8, the case: a customer with a shipment depending on it, which its owner's
\* DeleteCustomer removes together with the shipment
C8_Witness ==
    \E c \in DOMAIN customers, s \in DOMAIN shipments :
        LET A == customers[c].organization_id
        IN  /\ shipments[s].customer_id = c
            /\ c \notin DOMAIN DeleteCustomerStmt(c, A).customers
            /\ s \notin DOMAIN DeleteCustomerStmt(c, A).shipments
            /\ \E B \in Others(A) : c \in DOMAIN DeleteCustomerStmt(c, B).customers

KeepsOrganization(t, u) ==
    \A id \in DOMAIN t \cap DOMAIN u : u[id].organization_id = t[id].organization_id

\* C10: no step changes the organization_id of a user, customer, carrier or
\* shipment row there is.
C10_OrganizationIdImmutable ==
    [][/\ KeepsOrganization(users, users')
       /\ KeepsOrganization(customers, customers')
       /\ KeepsOrganization(carriers, carriers')
       /\ KeepsOrganization(shipments, shipments')]_vars

\* C10, the case: rows that updates have rewritten (a shipment with a carrier
\* assigned and a status past pending, beside an inactive carrier)
C10_Witness ==
    \E s \in DOMAIN shipments, k \in DOMAIN carriers :
        /\ shipments[s].status \notin {"pending", "assigned"}
        /\ shipments[s].carrier_id = Some(k)
        /\ carriers[k].active = FALSE

\* table u is table t with one more row, the row id, of organization org
AddsRowOf(t, u, id, org) ==
    /\ id \notin DOMAIN t
    /\ DOMAIN u = DOMAIN t \cup {id}
    /\ u[id].organization_id = org
    /\ \A i \in DOMAIN t : u[i] = t[i]

C12_NeverBackToPending ==
    [][\A s \in DOMAIN shipments \cap DOMAIN shipments' :
            shipments[s].status # "pending" => shipments'[s].status # "pending"]_vars

\* C12 as amended: a shipment that has left pending is set back to pending by
\* UpdateShipmentStatus and by UpdateShipment exactly when its own organization
\* passes the status pending (the statements store the status they are given),
\* and never by AssignCarrier, which stores assigned.
C12_PendingOnlyWhenPassed ==
    \A s \in DOMAIN shipments : \A org \in Orgs :
        shipments[s].status # "pending" =>
            LET own == shipments[s].organization_id = org
            IN  /\ \A status \in Statuses :
                    UpdateShipmentStatusStmt(s, org, status).shipments[s].status = "pending"
                        <=> (own /\ status = "pending")
                /\ \A carrier \in NullOr(IdsFor(carriers)), status \in NullOr(Statuses) :
                    LET out == UpdateShipmentStmt(s, org, carrier, status)
                    IN  out.shipments[s].status = "pending"
                            <=> (own /\ status = Some("pending") /\ out.returns = Row)
                /\ \A carrier \in NullOr(IdsFor(carriers)) :
                    LET out == AssignCarrierStmt(s, org, carrier)
                    IN  /\ out.shipments[s].status # "pending"
                        /\ (own /\ out.returns = Row)
                                => out.shipments[s].status = "assigned"

\* C12, the case: a delivered shipment with a carrier, which its organization's
\* UpdateShipmentStatus sets back to pending and which AssignCarrier without
\* carrier leaves assigned
C12_Witness ==
    \E s \in DOMAIN shipments :
        LET A == shipments[s].organization_id
        IN  /\ shipments[s].status = "delivered"
            /\ shipments[s].carrier_id # Null
            /\ UpdateShipmentStatusStmt(s, A, "pending").shipments[s].status = "pending"
            /\ AssignCarrierStmt(s, A, Null).shipments[s].status = "assigned"

\* process r is in, or has returned from, a call of RunMigrations that got the
\* lock and read a clean database
UpOnClean(r) ==
    /\ proc[r].op = "up"
    /\ proc[r].pc \in {"idle", "next", "script"}
    /\ proc[r].ret \notin {ErrDirty, ErrLockTimeout}

\* the call of process r has returned
HasReturned(r) == proc[r].pc = "idle" /\ proc[r].ret # "none"

\* C13: a RunMigrations call that finds the database clean at version v runs
\* the up scripts of the versions v+1, v+2, ... in this order, one at a time
\* and skipping none; when none of them fails it runs all of them up to the
\* highest embedded version and returns nil with (MaxVersion, false) recorded.
C13_UpRunsAllPendingInOrder ==
    \A r \in Procs :
        UpOnClean(r) =>
            /\ \A i \in DOMAIN proc[r].ran : proc[r].ran[i] = proc[r].from + i
            /\ (HasReturned(r) /\ proc[r].failed = NilVersion) =>
                    /\ Len(proc[r].ran) = MaxVersion - proc[r].from
                    /\ proc[r].ret = Nil
                    /\ proc[r].endVersion = MaxVersion
                    /\ proc[r].endDirty = FALSE

\* C13, the case: a call on the fresh database that has run every embedded up
\* script and returned nil, and a call that began at a version between the
\* first and the last
C13_Witness ==
    \E r, q \in Procs :
        /\ UpOnClean(r) /\ HasReturned(r)
        /\ proc[r].from = NilVersion
        /\ Len(proc[r].ran) = MaxVersion
        /\ proc[r].ret = Nil
        /\ UpOnClean(q) /\ HasReturned(q)
        /\ proc[q].from \notin {NilVersion, MaxVersion}
        /\ proc[q].ret = Nil

\* C14: a RunMigrations call that finds the database clean at the highest
\* embedded version ends in its next step: it returns nil, has run no script
\* and leaves the recorded (version, dirty) and the scripts run as they were.
C14_UpAtLatestIsNoOp ==
    [][\A r \in Procs :
        (/\ proc[r].op = "up"
         /\ proc[r].pc = "next"
         /\ proc[r].from = MaxVersion
         /\ proc'[r] # proc[r])
            => /\ proc'[r].pc = "idle"
               /\ proc'[r].ret = Nil
               /\ proc'[r].ran = <<>>
               /\ proc'[r].endVersion = proc[r].from
               /\ proc'[r].endDirty = FALSE
               /\ UNCHANGED <<version, dirty, upRuns, downRuns>>]_vars

\* C14, the case: the second RunMigrations call of a process has found the
\* database at the highest version, where its first call had left it, and has
\* returned nil
C14_Witness ==
    \E r \in Procs :
        /\ HasReturned(r)
        /\ proc[r].op = "up"
        /\ proc[r].calls > 1
        /\ proc[r].from = MaxVersion
        /\ proc[r].ret = Nil
        /\ upRuns = [v \in Versions |-> 1]
        /\ downRuns = [v \in Versions |-> 0]
        /\ version = MaxVersion /\ dirty = FALSE

\* C15: a RunMigrations call that reads a dirty database ends in that step
\* with an error, has run no script and leaves the recorded (version, dirty)
\* as it was; and a dirty flag left behind by a failed call (dirty with the
\* lock free) is cleared by no step of a caller.
C15_DirtyRefused ==
    [][/\ \A r \in Procs :
            (/\ proc[r].op = "up"
             /\ proc[r].pc = "locked"
             /\ dirty
             /\ proc'[r] # proc[r])
                => /\ proc'[r].pc = "idle"
                   /\ IsError(proc'[r].ret)
                   /\ proc'[r].ran = <<>>
                   /\ UNCHANGED <<version, dirty, upRuns, downRuns>>
       /\ (dirty /\ lockedBy = NoProc) => (dirty' /\ version' = version)]_vars

\* C15, the case: an up script has failed in the call of one process, and a
\* later RunMigrations call of another has returned ErrDirty with the database
\* still as the failed call left it
C15_Witness ==
    \E r, q \in Procs :
        /\ HasReturned(q)
        /\ proc[q].op = "up"
        /\ proc[q].failed # NilVersion
        /\ HasReturned(r)
        /\ proc[r].op = "up"
        /\ proc[r].ret = ErrDirty
        /\ proc[r].ran = <<>>
        /\ dirty
        /\ version = proc[q].failed

\* C16: a RunMigrations call in which the up script of version f failed has
\* returned an error having run the scripts below f only, and the database
\* is left at (f, dirty = true), which is what MigrationVersion reports.
C16_FailedUpLeavesDirty ==
    \A r \in Procs :
        (HasReturned(r) /\ proc[r].op = "up" /\ proc[r].failed # NilVersion) =>
            /\ IsError(proc[r].ret)
            /\ \A i \in DOMAIN proc[r].ran : proc[r].ran[i] < proc[r].failed
            /\ upRuns[proc[r].failed] > 0
            /\ proc[r].endVersion = proc[r].failed
            /\ proc[r].endDirty = TRUE
            /\ version = proc[r].failed
            /\ dirty = TRUE
            /\ MigrationVersion = <<proc[r].failed, TRUE>>

\* C16, the case: the up script of a version between the first and the last
\* has failed after the scripts before it had run in the same call
C16_Witness ==
    \E r \in Procs :
        /\ HasReturned(r)
        /\ proc[r].op = "up"
        /\ proc[r].failed \notin {NilVersion, MaxVersion}
        /\ proc[r].ran # <<>>
        /\ proc[r].ret = ScriptError
        /\ MigrationVersion = <<proc[r].failed, TRUE>>

\* process r is in, or has returned from, a call of RollbackMigration that got
\* the lock and read a clean database
DownOnClean(r) ==
    /\ proc[r].op = "down"
    /\ proc[r].pc \in {"idle", "next", "script"}
    /\ proc[r].ret \notin {ErrDirty, ErrLockTimeout}

\* C17: a RollbackMigration call that finds the database clean at version
\* v >= 1 runs one down script, the one of v, and no other; while it runs the
\* recorded version is v or the version below v; when the script does not fail
\* the call returns nil with the version below v recorded (no version when v
\* was the first) and dirty = false.
C17_RollbackOneVersion ==
    \A r \in Procs :
        (DownOnClean(r) /\ proc[r].from # NilVersion) =>
            /\ Len(proc[r].ran) <= 1
            /\ \A i \in DOMAIN proc[r].ran : proc[r].ran[i] = proc[r].from
            /\ proc[r].pc # "idle" => version \in {proc[r].from, proc[r].from - 1}
            /\ (HasReturned(r) /\ proc[r].failed = NilVersion) =>
                    /\ proc[r].ran = <<proc[r].from>>
                    /\ proc[r].ret = Nil
                    /\ proc[r].endVersion = proc[r].from - 1
                    /\ proc[r].endDirty = FALSE

\* C17, the case: one call has rolled the highest version back to the one
\* below it, another the first version back to no version
C17_Witness ==
    \E r, q \in Procs :
        /\ DownOnClean(r) /\ HasReturned(r)
        /\ proc[r].from = MaxVersion
        /\ proc[r].ret = Nil
        /\ proc[r].endVersion = MaxVersion - 1
        /\ DownOnClean(q) /\ HasReturned(q)
        /\ proc[q].ran # <<>>
        /\ proc[q].ret = Nil
        /\ proc[q].endVersion = NilVersion
        /\ MigrationVersion = <<0, FALSE>>

\* every process has called RunMigrations, every call has returned, and no
\* down script has run
AllRanMigrations ==
    /\ \A r \in Procs : HasReturned(r) /\ proc[r].op = "up"
    /\ \A v \in Versions : downRuns[v] = 0

\* C18 as stated: after each process has called RunMigrations once and no
\* script has failed, each up script has been executed exactly once, every
\* call has returned nil and the database is at the highest version with
\* dirty = false.
C18_ConcurrentUpAllSucceed ==
    (/\ AllRanMigrations
     /\ \A r \in Procs : proc[r].calls = 1 /\ proc[r].failed = NilVersion) =>
        /\ \A v \in Versions : upRuns[v] = 1
        /\ \A r \in Procs : proc[r].ret = Nil
        /\ version = MaxVersion
        /\ dirty = FALSE

\* C18 as amended: an up script is never executed a second time unless its
\* down script ran in between, so among concurrent RunMigrations calls at most
\* one executes the script of a version; a call returns an error only for a
\* failed script, a dirty database or a lock wait that timed out, and without
\* any of these every call returns nil having seen the database at the
\* highest version with dirty = false and each up script executed once.  When
\* each process has called once and no script has failed, each up script has
\* been executed exactly once, every call has returned nil or the lock-wait
\* timeout, at least one nil, and the database is at the highest version
\* with dirty = false.
C18_ConcurrentUpOncePerVersion ==
    /\ \A v \in Versions : upRuns[v] <= downRuns[v] + 1
    /\ AllRanMigrations =>
        /\ \A r \in Procs :
            /\ proc[r].ret \in {Nil, ScriptError, ErrDirty, ErrLockTimeout}
            /\ proc[r].ret = Nil
                    => proc[r].endVersion = MaxVersion /\ proc[r].endDirty = FALSE
            /\ proc[r].ret = ScriptError => proc[r].failed # NilVersion
            /\ proc[r].ret = ErrDirty => dirty
        /\ (\E r \in Procs : proc[r].ret = Nil) =>
                /\ version = MaxVersion
                /\ dirty = FALSE
                /\ \A v \in Versions : upRuns[v] = 1
    /\ (/\ AllRanMigrations
        /\ \A r \in Procs : proc[r].calls = 1 /\ proc[r].failed = NilVersion) =>
            /\ \A v \in Versions : upRuns[v] = 1
            /\ \A r \in Procs : proc[r].ret \in {Nil, ErrLockTimeout}
            /\ \E r \in Procs : proc[r].ret = Nil
            /\ version = MaxVersion
            /\ dirty = FALSE

\* C18, the case: two RunMigrations calls under way at once on the fresh
\* database, one holding the lock with a script applied and the next running,
\* the other waiting for the lock
C18_Witness ==
    \E r, q \in Procs :
        /\ proc[r].op = "up" /\ proc[q].op = "up"
        /\ lockedBy = r
        /\ proc[r].pc = "script"
        /\ proc[r].from = NilVersion
        /\ proc[r].ran # <<>>
        /\ proc[q].pc = "locking"
        /\ \A v \in Versions : downRuns[v] = 0


\* C19 as stated: the server accepts HTTP requests only after a RunMigrations
\* call has returned nil, and never while the schema is dirty.
C19_ServesOnlyAfterMigrations ==
    (server.exit = "running" /\ server.listener = "serving") =>
        /\ \E r \in Procs :
            HasReturned(r) /\ proc[r].op = "up" /\ proc[r].ret = Nil
        /\ dirty = FALSE


\* every id a caller may pass
AllIds == 1..NoId

\* the rows of table t that organization org does not own
NotOwnedBy(t, org) ==
    [k \in {r \in DOMAIN t : t[r].organization_id # org} |-> t[k]]

\* what an identity of organization b can observe of the database: the result
\* of every read and the success or error of every write it may invoke
Observes(b) ==
    [getCustomer |-> [id \in AllIds |-> GetCustomer(id, b)],
     getCarrier |-> [id \in AllIds |-> GetCarrier(id, b)],
     getShipment |-> [id \in AllIds |-> GetShipment(id, b)],
     listCustomers |-> ListCustomers(b, MaxRows, 0),
     listCarriers |-> ListCarriers(b, MaxRows, 0),
     listShipments |-> ListShipments(b, MaxRows, 0),
     listUsers |-> ListUsersByOrganization(b),
     getUser |-> [id \in AllIds |-> GetUser(id)],
     getUserByEmail |-> [e \in UserEmails |-> GetUserByEmail(e)],
     createUser |-> [e \in UserEmails |->
                        CreateUserStmt(b, e, "hash1", TRUE).returns],
     updateUser |-> [id \in AllIds, e \in NullOr(UserEmails) |->
                        UpdateUserStmt(id, e, Null).returns],
     createShipment |-> [c \in AllIds |-> CreateShipmentStmt(b, c).returns],
     assignCarrier |-> [id \in AllIds, c \in NullOr(AllIds) |->
                        AssignCarrierStmt(id, b, c).returns],
     updateCustomer |-> [id \in AllIds |-> UpdateCustomerStmt(id, b, Null).returns],
     updateCarrier |-> [id \in AllIds |->
                        UpdateCarrierStmt(id, b, Null, Null).returns],
     updateStatus |-> [id \in AllIds |->
                        UpdateShipmentStatusStmt(id, b, "pending").returns]]

\* C21 as stated: a step that changes only rows owned by organization a
\* changes nothing of what an identity of another organization b observes.
C21_TenantNoninterference ==
    [][\A a \in Orgs : \A b \in Others(a) :
            (/\ NotOwnedBy(customers', a) = NotOwnedBy(customers, a)
             /\ NotOwnedBy(carriers', a) = NotOwnedBy(carriers, a)
             /\ NotOwnedBy(shipments', a) = NotOwnedBy(shipments, a)
             /\ NotOwnedBy(users', a) = NotOwnedBy(users, a))
                => Observes(b)' = Observes(b)]_vars


\* column col of the updated row new, for the parameter p of its COALESCE:
\* the value supplied, or the value of the row old before when p is NULL
Supplied(p, col, new, old) ==
    IF p = Null THEN new[col] = old[col] ELSE new[col] = p[1]

\* the columns cols of the updated row are those of the row before
Kept(cols, new, old) == \A col \in cols : new[col] = old[col]

\* C22: an UpdateCustomer, UpdateCarrier, UpdateShipment, UpdateUser or
\* UpdateOrganization that returns its row leaves each updatable column with
\* the value supplied when the parameter is not NULL and with its previous
\* value when it is NULL (a NULL carrier_id does not unassign the carrier), and
\* every other column of the row as it was; one that returns no row writes
\* nothing.
C22_PartialUpdate ==
    /\ \A id \in IdsFor(customers), org \in Orgs, name \in NullOr(CustomerNames) :
        LET out == UpdateCustomerStmt(id, org, name)
        IN  IF out.returns = Row
            THEN /\ Supplied(name, "name", out.customers[id], customers[id])
                 /\ Kept({"organization_id"}, out.customers[id], customers[id])
            ELSE WritesNothing(out)
    /\ \A id \in IdsFor(carriers), org \in Orgs,
          name \in NullOr(CompanyNames), active \in NullOr(BOOLEAN) :
        LET out == UpdateCarrierStmt(id, org, name, active)
        IN  IF out.returns = Row
            THEN /\ Supplied(name, "company_name", out.carriers[id], carriers[id])
                 /\ Supplied(active, "active", out.carriers[id], carriers[id])
                 /\ Kept({"organization_id"}, out.carriers[id], carriers[id])
            ELSE WritesNothing(out)
    /\ \A id \in IdsFor(shipments), org \in Orgs,
          carrier \in NullOr(IdsFor(carriers)), status \in NullOr(Statuses) :
        LET out == UpdateShipmentStmt(id, org, carrier, status)
        IN  IF out.returns = Row
            THEN /\ out.shipments[id].carrier_id =
                        (IF carrier = Null THEN shipments[id].carrier_id ELSE carrier)
                 /\ Supplied(status, "status", out.shipments[id], shipments[id])
                 /\ Kept({"organization_id", "customer_id"},
                         out.shipments[id], shipments[id])
            ELSE WritesNothing(out)
    /\ \A id \in IdsFor(users), email \in NullOr(UserEmails), active \in NullOr(BOOLEAN) :
        LET out == UpdateUserStmt(id, email, active)
        IN  IF out.returns = Row
            THEN /\ Supplied(email, "email", out.users[id], users[id])
                 /\ Supplied(active, "active", out.users[id], users[id])
                 /\ Kept({"organization_id", "password_hash"}, out.users[id], users[id])
            ELSE WritesNothing(out)
    /\ \A id \in Orgs, name \in NullOr(OrgNames),
          slug \in NullOr(OrgSlugs), active \in NullOr(BOOLEAN) :
        LET out == UpdateOrganizationStmt(id, name, slug, active)
        IN  IF out.returns = Row
            THEN /\ Supplied(name, "name", out.organizations[id], organizations[id])
                 /\ Supplied(slug, "slug", out.organizations[id], organizations[id])
                 /\ Supplied(active, "active", out.organizations[id], organizations[id])
            ELSE out.organizations = organizations

\* C22, the case: a shipment with a carrier, for which UpdateShipment with a
\* NULL carrier_id and a status returns the row
C22_Witness ==
    \E id \in DOMAIN shipments, org \in Orgs, status \in Statuses :
        /\ shipments[id].carrier_id # Null
        /\ shipments[id].status # status
        /\ UpdateShipmentStmt(id, org, Null, Some(status)).returns = Row


\* no migration was ever applied to the database
FreshDatabase ==
    /\ version = NilVersion
    /\ dirty = FALSE
    /\ \A v \in Versions : upRuns[v] = 0

\* C23: on a database to which no migration was ever applied MigrationVersion
\* returns (0, false, nil); when the source, the migrate instance or the read
\* of the version fails it returns (0, false, err) with err an error, whatever
\* the recorded version is.
C23_VersionOfFreshDatabase ==
    /\ FreshDatabase => MigrationVersionReturns(NoFault) = <<NilVersion, FALSE, Nil>>
    /\ \A fault \in Faults \ {NoFault} :
        LET ret == MigrationVersionReturns(fault)
        IN  ret[1] = NilVersion /\ ret[2] = FALSE /\ ret[3] # Nil

\* C23, the case: MigrationVersion on the fresh database, called while a
\* RunMigrations call is waiting for the lock: (0, false, nil), and
\* (0, false, err) when the read of the version fails
C23_Witness ==
    /\ FreshDatabase
    /\ \E r \in Procs : proc[r].pc = "locking"
    /\ MigrationVersionReturns(NoFault) = <<NilVersion, FALSE, Nil>>
    /\ MigrationVersionReturns("read") = <<NilVersion, FALSE, "VersionError">>


\* the customer and carrier columns of the joined shipment row are NULL or of
\* a customer / carrier that organization org owns
JoinedFromOwnRows(row, org) ==
    /\ row.customer_name # Null =>
            customers[row.customer_id].organization_id = org
    /\ row.carrier_name # Null =>
            carriers[row.carrier_id[1]].organization_id = org

\* C24 as stated: the customer and carrier columns of every row that
\* GetShipment and ListShipments return to an organization are taken from a
\* customer / carrier of that organization, or are NULL.
C24_JoinedFieldsOwnTenant ==
    \A org \in Orgs :
        /\ \A id \in DOMAIN shipments :
            GetShipment(id, org) # Null
                => JoinedFromOwnRows(GetShipment(id, org)[1], org)
        /\ \A i \in DOMAIN ListShipments(org, MaxRows, 0) :
            JoinedFromOwnRows(ListShipments(org, MaxRows, 0)[i], org)


\* id is the id of a row of table t that was deleted
Deleted(t, next, id) == id < next /\ id \notin DOMAIN t

StatusRank(status) ==
    CASE status = "pending" -> 1
      [] status = "assigned" -> 2
      [] status = "in_transit" -> 3
      [] status = "delivered" -> 4
      [] status = "cancelled" -> 5

\* C26 as stated: no step moves a shipment to an earlier status than the one
\* it has.
C26_StatusOnlyForward ==
    [][\A s \in DOMAIN shipments \cap DOMAIN shipments' :
            StatusRank(shipments'[s].status) >= StatusRank(shipments[s].status)]_vars

\* C26 as amended: the statements do not look at the current status.
\* AssignCarrier by the shipment's organization, when it returns the row,
\* leaves the status assigned whatever it was; UpdateShipmentStatus leaves the
\* status it is passed, an earlier one included, and UpdateShipment the status
\* it is passed or, for NULL, the current one; a call by another organization
\* leaves the status as it is.
C26_StatusStoredAsGiven ==
    \A s \in DOMAIN shipments : \A org \in Orgs :
        LET own == shipments[s].organization_id = org
            cur == shipments[s].status
        IN  /\ \A carrier \in NullOr(IdsFor(carriers)) :
                LET out == AssignCarrierStmt(s, org, carrier)
                IN  out.shipments[s].status =
                        (IF own /\ out.returns = Row THEN "assigned" ELSE cur)
            /\ \A status \in Statuses :
                UpdateShipmentStatusStmt(s, org, status).shipments[s].status =
                    (IF own THEN status ELSE cur)
            /\ \A carrier \in NullOr(IdsFor(carriers)), status \in Statuses :
                LET out == UpdateShipmentStmt(s, org, carrier, Some(status))
                    same == UpdateShipmentStmt(s, org, carrier, Null)
                IN  /\ out.shipments[s].status =
                            (IF own /\ out.returns = Row THEN status ELSE cur)
                    /\ same.shipments[s].status = cur

\* C26, the case: a shipment in transit with a carrier, which AssignCarrier of
\* an existing carrier moves back to assigned and UpdateShipment to assigned
\* as well
C26_Witness ==
    \E s \in DOMAIN shipments, k \in DOMAIN carriers :
        LET A == shipments[s].organization_id
        IN  /\ shipments[s].status = "in_transit"
            /\ shipments[s].carrier_id = Some(k)
            /\ AssignCarrierStmt(s, A, Some(k)).returns = Row
            /\ AssignCarrierStmt(s, A, Some(k)).shipments[s].status = "assigned"
            /\ UpdateShipmentStmt(s, A, Null, Some("assigned")).shipments[s].status
                    = "assigned"


\* C27 as stated: a shipment whose status is assigned, in_transit or delivered
\* has a carrier.
C27_CarriedStatusHasCarrier ==
    \A s \in DOMAIN shipments :
        shipments[s].status \in {"assigned", "in_transit", "delivered"}
            => shipments[s].carrier_id # Null

\* C27 as amended: status and carrier_id are written independently.
\* CreateShipment gives pending without carrier and AssignCarrier with an
\* existing carrier gives assigned with that carrier, but UpdateShipmentStatus
\* changes the status of a shipment without carrier and leaves it without
\* one, UpdateShipment with a NULL carrier_id does the same, AssignCarrier with
\* a NULL carrier_id gives assigned without carrier, and DeleteCarrier leaves
\* the shipments of the carrier without carrier at the status they had.
C27_StatusAndCarrierIndependent ==
    /\ \A org \in Orgs, c \in DOMAIN customers :
        LET new == CreateShipmentStmt(org, c).shipments[nextId.shipments]
        IN  new.status = "pending" /\ new.carrier_id = Null
    /\ \A s \in DOMAIN shipments :
        LET A == shipments[s].organization_id
        IN  /\ \A carrier \in NullOr(DOMAIN carriers) :
                LET new == AssignCarrierStmt(s, A, carrier).shipments[s]
                IN  new.status = "assigned" /\ new.carrier_id = carrier
            /\ \A status \in Statuses :
                LET new == UpdateShipmentStatusStmt(s, A, status).shipments[s]
                    upd == UpdateShipmentStmt(s, A, Null, Some(status)).shipments[s]
                IN  /\ new.status = status
                    /\ new.carrier_id = shipments[s].carrier_id
                    /\ upd = new
            /\ \A k \in DOMAIN carriers :
                LET new == DeleteCarrierStmt(k, carriers[k].organization_id).shipments[s]
                IN  /\ new.status = shipments[s].status
                    /\ new.carrier_id = (IF shipments[s].carrier_id = Some(k)
                                         THEN Null ELSE shipments[s].carrier_id)

\* C27, the case: an assigned shipment with a carrier, which DeleteCarrier of
\* that carrier leaves assigned and without carrier
C27_Witness ==
    \E s \in DOMAIN shipments, k \in DOMAIN carriers :
        LET out == DeleteCarrierStmt(k, carriers[k].organization_id)
        IN  /\ shipments[s].status = "assigned"
            /\ shipments[s].carrier_id = Some(k)
            /\ out.shipments[s].status = "assigned"
            /\ out.shipments[s].carrier_id = Null


\* C28: a RollbackMigration call that finds no recorded version ends in its
\* next step: it returns an error, has run no script and leaves the recorded
\* (version, dirty), the scripts run and the schema as they were; a
\* RunMigrations call with nothing to do returns nil (C14).
C28_RollbackOfNothingIsError ==
    [][\A r \in Procs :
        (/\ proc[r].op = "down"
         /\ proc[r].pc = "next"
         /\ proc[r].from = NilVersion
         /\ proc'[r] # proc[r])
            => /\ proc'[r].pc = "idle"
               /\ proc'[r].ret # Nil
               /\ IsError(proc'[r].ret)
               /\ proc'[r].ran = <<>>
               /\ proc'[r].endVersion = NilVersion
               /\ proc'[r].endDirty = FALSE
               /\ UNCHANGED <<version, dirty, upRuns, downRuns, schema>>]_vars

\* C28, the case: a RollbackMigration call has returned an error from the
\* database to which no migration was ever applied
C28_Witness ==
    \E r \in Procs :
        /\ HasReturned(r)
        /\ proc[r].op = "down"
        /\ proc[r].from = NilVersion
        /\ proc[r].ret = ErrNotExist
        /\ version = NilVersion /\ dirty = FALSE
        /\ \A v \in Versions : upRuns[v] = 0 /\ downRuns[v] = 0


\* everything the up script of version 1 creates
Created == {UpScript[i].obj : i \in DOMAIN UpScript}

\* the up script of version 1 on a database without the application schema,
\* the down script on the result, and the up script again on that
UpOfNothing == RunStatements({}, UpScript)

DownOfUp == RunStatements(UpOfNothing.schema, DownScript)

UpOfDown == RunStatements(DownOfUp.schema, UpScript)

\* C29: the up script of version 1 applies to a database without the
\* application schema and creates every object it names; the down script
\* applies to the result and leaves the uuid-ossp extension alone, and the up
\* script applies again to that.  In every state with no script begun and
\* unfinished, the schema is empty when no script ever ran and otherwise the
\* extension alone when no version is recorded, and the whole application
\* schema when a version is; a RunMigrations call that found no version after
\* a rollback and whose scripts did not fail returned nil.
C29_UpDownRoundTrip ==
    /\ UpOfNothing.ok /\ UpOfNothing.schema = Created
    /\ DownOfUp.ok /\ DownOfUp.schema = {Extension}
    /\ UpOfDown = UpOfNothing
    /\ dirty = FALSE =>
        /\ version = NilVersion =>
                schema = (IF upRuns[1] = 0 THEN {} ELSE {Extension})
        /\ version # NilVersion => schema = Created
        /\ upRuns[1] = downRuns[1] + (IF version = NilVersion THEN 0 ELSE 1)
    /\ \A r \in Procs :
        (/\ HasReturned(r) /\ proc[r].op = "up"
         /\ proc[r].from = NilVersion /\ proc[r].ran # <<>>
         /\ proc[r].failed = NilVersion)
            => proc[r].ret = Nil /\ proc[r].ran[1] = 1

\* C29, the case: RunMigrations has returned nil after running the up script
\* of version 1 for the second time, on the database that rollbacks had taken
\* back to no version
C29_Witness ==
    \E r \in Procs :
        /\ HasReturned(r)
        /\ proc[r].op = "up"
        /\ proc[r].from = NilVersion
        /\ proc[r].ret = Nil
        /\ upRuns[1] > 1
        /\ downRuns[1] > 0
        /\ version = MaxVersion /\ dirty = FALSE
        /\ schema = Created


\* the process ends in this step, after the signal has been received
EndsAfterSignal ==
    /\ server.exit = "running"
    /\ server'.exit # "running"
    /\ server.main # "waiting"

\* the step ends the process normally, "Server exited" logged, after the one
\* srv.Shutdown call returned nil
EndsNormally ==
    /\ server'.exit = "normal"
    /\ server'.logged
    /\ server.main = "shutdown"
    /\ server'.shutdowns = 1

\* the step ends the process fatally because the one srv.Shutdown call
\* returned an error
EndsOnShutdownError ==
    /\ server'.exit = "fatal"
    /\ server.main = "shutdown"
    /\ server'.shutdowns = 1
    /\ server'.listener = server.listener

\* what C30 says of the listener goroutine and of the number of Shutdown
\* calls: ErrServerClosed ends the goroutine and not the process, another
\* error ends the process, and Shutdown is called only after the signal and
\* never twice
ListenerAndCalls ==
    /\ (server'.listener = "closed" /\ server.listener # "closed")
            => server'.exit = "running" /\ server.exit = "running"
    /\ (server'.listener = "failed" /\ server.listener # "failed")
            => server'.exit = "fatal"
    /\ server'.shutdowns <= 1
    /\ server'.shutdowns # server.shutdowns => server.main = "signalled"
    /\ server'.logged => server'.exit = "normal"

\* C30 as stated: once SIGINT or SIGTERM has been received, the process ends
\* only with srv.Shutdown called exactly once, normally after logging
\* "Server exited" or fatally on the error of Shutdown; the listener
\* goroutine does not end the process on ErrServerClosed and does on any
\* other error.
C30_ShutdownCalledOnce ==
    [][/\ ListenerAndCalls
       /\ EndsAfterSignal => EndsNormally \/ EndsOnShutdownError]_vars

\* C30, amended: once SIGINT or SIGTERM has been received, the process ends
\* normally after logging "Server exited" or fatally on the error of
\* Shutdown, in both cases with srv.Shutdown called exactly once, or fatally
\* with no Shutdown call when ListenAndServe fails before main has called
\* it; Shutdown is never called twice; the listener goroutine does not end
\* the process on ErrServerClosed and does on any other error.
C30_ShutdownOnceUnlessListenerFails ==
    [][/\ ListenerAndCalls
       /\ EndsAfterSignal =>
            \/ EndsNormally
            \/ EndsOnShutdownError
            \/ /\ server'.exit = "fatal"
               /\ server'.listener = "failed" /\ server.listener # "failed"
               /\ server.main = "signalled"
               /\ server'.shutdowns = 0]_vars

\* C30, the case: the signal was received, srv.Shutdown was called once, the
\* listener goroutine returned on ErrServerClosed and the process went on to
\* log "Server exited" and end normally
C30_Witness ==
    /\ server.exit = "normal"
    /\ server.logged
    /\ server.main = "returned"
    /\ server.shutdowns = 1
    /\ server.listener = "closed"
===========================================================================
